---- MODULE Spec2Model ----
(***************************************************************************)
(* git-auto: the synchronization engine of gitsync.py (CLI) and            *)
(* gitsync_gui.py (GUI), the registry file repos.json and the GUI's        *)
(* worker threads.                                                         *)
(*                                                                         *)
(* These specifications share the module:                                 *)
(*   Spec     one tracked clone driven through sync cycles by the three    *)
(*            engines (CLI sync_repository, GUI                            *)
(*            _check_and_update_single_thread, GUI _sync_repos), git being *)
(*            the environment;                                             *)
(*   SpecRec  the recovery procedure called directly, twice in succession; *)
(*   SpecReg  repos.json and the GUI's in-memory self.subscriptions;       *)
(*   SpecGui  the GUI's is_running flag, Tk event queue and workers;       *)
(*   SpecPass a pass over the subscriptions (SpecPassFair: the pass thread *)
(*            keeps running);                                              *)
(*   SpecUrl  the origin URL of a clone through the steps of a cycle;      *)
(*   SpecStore repos.json as a document under one registry function.       *)
(***************************************************************************)
EXTENDS Integers, Sequences, FiniteSets, TLC

VARIABLES
    \* ---- the clone on disk and its remote (git is the environment)
    exists,      \* os.path.exists(local_path)
    hasGit,      \* os.path.exists(local_path/.git)
    head,        \* revision of HEAD
    branch_tip,  \* tip of the local tracked branch while HEAD is elsewhere, else NoRev
    track,       \* revision of origin/<branch>, the remote-tracking ref
    remote,      \* revision of the branch tip on the remote itself
    merging,     \* MERGE_HEAD exists
    unmerged,    \* the index holds unmerged paths
    dirty,       \* uncommitted changes to files the remote's new commits touch:
                 \* "no", "plain", or "kw" (a changed file is named Unmerged)
    clash,       \* the local-only commits conflict with the remote's commits
    locale,      \* git prints its messages translated
    now,         \* the clock, in seconds
    backups,     \* timestamps of the backup folders beside local_path
    \* ---- the registry field of this clone
    last_commit,
    \* ---- the engine
    mode,        \* which engine runs the cycle
    pc,          \* its position
    status,      \* outcome of the last finished cycle
    message,     \* output text attached to that outcome
    rec_ok,      \* what the recovery procedure returned
    runs,        \* calls of the recovery procedure so far (SpecRec)
    snap,        \* clone state when the recovery procedure was entered
    \* ---- history of the current cycle
    ops,         \* operations issued, in order
    rstart,      \* Len(ops) when the recovery procedure was entered, -1 outside
    fails,       \* cause of every failed pull of the cycle, in order
    class0,      \* (behind, ahead) measured by the probe of the cycle
    journal,     \* what else the cycle did: log lines, last failed command,
                 \* registry write, remote set-url, the tree when it began
    events,      \* changes the world has made so far (bounded by MaxEvents)
    \* ---- repos.json and the GUI's copy of it
    file,        \* the subscriptions list persisted in repos.json
    subs,        \* self.subscriptions
    tree,        \* the rows of the list view (repo names), in display order
    hist,        \* values persisted by the operations so far (history)
    \* ---- the GUI's threads
    is_running,
    startup,     \* the timer of _startup_check: "pending" until it fires
    queue,       \* callbacks posted with root.after(0, ...), in order
    workers,     \* the worker threads alive, with their positions
    \* ---- a pass over the subscriptions
    plist,       \* the subscriptions of the pass, each with what its sync meets
    pkind,       \* the pass that runs
    phase,       \* its position: the loop it is in, "done", or "dead"
    todo,        \* the records its current loop goes through (indices)
    ppos,        \* the place in todo of the record to process next
    results,     \* self.check_results of the pass
    trace,       \* operations, registry writes and reports so far, in order
    \* ---- the origin URL of a clone during a cycle
    origin_url,  \* remote.origin.url in .git/config: "clean" or "token"
    token,       \* GITHUB_TOKEN is configured
    prog,        \* the function that runs the cycle
    script,      \* the steps the cycle has still to take, in order
    last,        \* result of the last fetch or pull
    armed,       \* a set-url with the token was issued and no restore since
    netlog,      \* every fetch and pull of the cycle, with armed and the URL
    \* ---- repos.json as a document, and one registry function applied to it
    disk,        \* the content of repos.json
    prev,        \* the content before the call
    sop,         \* the call: its name and arguments
    raised,      \* the exception it raised, or "none"
    ret          \* what it returned

syncVars == << exists, hasGit, head, branch_tip, track, remote, merging, unmerged,
               dirty, clash, locale, now, backups, last_commit, mode, pc, status, message, rec_ok,
               runs, snap, ops, rstart, fails, class0, journal, events >>
regVars  == << file, subs, tree, hist >>
guiVars  == << is_running, startup, queue, workers >>
passVars == << plist, pkind, phase, todo, ppos, results, trace >>
urlVars  == << origin_url, token, prog, script, last, armed, netlog >>
storeVars == << disk, prev, sop, raised, ret >>
moreVars == << passVars, urlVars, storeVars >>
vars     == << syncVars, regVars, guiVars, moreVars >>

-----------------------------------------------------------------------------
(* Bounds of the model *)

MaxRev   == 1   \* commits the remote branch can gain within one history
MaxEpoch == 1   \* times the remote history can be replaced (force push)
MaxExtra == 1   \* local-only commits on top of a remote commit
MaxClock == 1   \* seconds the clock can advance
MaxEvents == 2  \* changes made by the remote and by the user in one behaviour
MaxSha   == 2   \* distinct revisions a sync can write into repos.json
MaxWorkers == 2 \* worker threads that can be alive at once
MaxQueue == 4   \* callbacks that can wait in the Tk event queue
MaxList  == 2   \* subscriptions in the registry of a pass

-----------------------------------------------------------------------------
(* Revisions.  ep: the history the commit belongs to; n: its position on   *)
(* the remote branch of that history; x: local-only commits on top of it.  *)

Rev(e, k, l) == [ep |-> e, n |-> k, x |-> l]
NoRev == [ep |-> -1, n |-> 0, x |-> 0]

\* rev-list --count HEAD..origin/branch
Behind(h, t) ==
    IF h.ep # t.ep THEN t.n + 1
    ELSE IF t.n > h.n THEN t.n - h.n ELSE 0

\* rev-list --count origin/branch..HEAD
Ahead(h, t) ==
    IF h.ep # t.ep THEN h.n + h.x + 1
    ELSE IF h.n > t.n THEN (h.n - t.n) + h.x ELSE h.x

-----------------------------------------------------------------------------
(* Output texts of git, as sequences of words.                             *)

T_ok        == << "Already", "up", "to", "date." >>
T_unmerged  == << "error:", "Pulling", "is", "not", "possible", "because", "you",
                  "have", "unmerged", "files", "fatal:", "Exiting", "because",
                  "of", "an", "unresolved", "conflict" >>
T_fix       == << "CONFLICT", "(content):", "Merge", "conflict", "in", "f",
                  "Automatic", "merge", "failed;", "fix", "conflicts", "and",
                  "then", "commit", "the", "result." >>
T_unrelated == << "fatal:", "refusing", "to", "merge", "unrelated", "histories" >>
T_mergehead == << "error:", "You", "have", "not", "concluded", "your", "merge",
                  "(MERGE_HEAD", "exists)." >>
T_localized == << "LOCALIZED", "MESSAGE" >>
T_network   == << "fatal:", "unable", "to", "access", "Could", "not", "resolve",
                  "host:", "github.com" >>
T_notgit    == << "fatal:", "not", "a", "git", "repository" >>
T_overwrite == << "error:", "Your", "local", "changes", "would", "be",
                  "overwritten", "by", "merge:", "notes.txt", "Aborting" >>
T_overwrite_kw == << "error:", "Your", "local", "changes", "would", "be",
                  "overwritten", "by", "merge:", "Unmerged", "Aborting" >>
T_nomerge   == << "fatal:", "There", "is", "no", "merge", "to", "abort" >>
T_denied    == << "error:", "Permission", "denied" >>

\* str.lower(), on the words that have an upper-case letter the matching reads
Lower(w) ==
    CASE w = "Unmerged" -> "unmerged"
      [] w = "CONFLICT" -> "conflict"
      [] w = "Merge"    -> "merge"
      [] OTHER          -> w

LowerText(t) == [i \in 1..Len(t) |-> Lower(t[i])]

\* kw in text
Contains(t, kw) ==
    \E i \in 1..(Len(t) - Len(kw) + 1) : SubSeq(t, i, i + Len(kw) - 1) = kw

\* gitsync.py: is_merge_conflict_error
is_merge_conflict_error(git_output) ==
    IF git_output = << >> THEN FALSE
    ELSE LET text == LowerText(git_output)
         IN  \/ Contains(text, << "unmerged" >>)
             \/ Contains(text, << "unmerged", "files" >>)
             \/ Contains(text, << "fix", "conflicts" >>)
             \/ Contains(text, << "unresolved", "conflict" >>)
             \/ Contains(text, << "you", "have", "unmerged", "paths" >>)

\* gitsync_gui.py: is_merge_conflict_error
gui_is_merge_conflict_error(git_output) ==
    IF git_output = << >> THEN FALSE
    ELSE LET text == LowerText(git_output)
         IN  \/ Contains(text, << "unmerged" >>)
             \/ Contains(text, << "unmerged", "files" >>)
             \/ Contains(text, << "fix", "conflicts" >>)
             \/ Contains(text, << "unresolved", "conflict" >>)
             \/ Contains(text, << "you", "have", "unmerged", "paths" >>)
             \/ Contains(text, << "unrelated", "histories" >>)

\* The cause of a failure, which the code does not see: a structural conflict
\* is unmerged paths / conflict markers, a merge in progress, or unrelated
\* histories; "env" is everything else (network, authentication, permission,
\* disk, local changes in the way, the process not starting).
Structural(cause) == cause \in {"conflict", "inprogress", "unrelated"}

-----------------------------------------------------------------------------
(* git, the environment: a command run on clone state c yields a set of    *)
(* possible results [ok, cause, text, st], st being the clone afterwards.  *)

Cur == [head |-> head, tip |-> branch_tip, track |-> track,
        merging |-> merging, unmerged |-> unmerged, dirty |-> dirty, clash |-> clash]

Apply(st) ==
    /\ head' = st.head
    /\ branch_tip' = st.tip
    /\ track' = st.track
    /\ merging' = st.merging
    /\ unmerged' = st.unmerged
    /\ dirty' = st.dirty
    /\ clash' = st.clash

Ok(st) == { [ok |-> TRUE, cause |-> "none", text |-> T_ok, st |-> st] }
Fail(cause, texts, st) ==
    { [ok |-> FALSE, cause |-> cause, text |-> t, st |-> st] : t \in texts }

EnvTexts == { T_network, T_denied }

\* a message git prints, in English or translated
Msg(t) == IF locale THEN T_localized ELSE t

\* run_git(["fetch", "origin"])
GitFetch(c) ==
    Fail("env", EnvTexts, c) \cup Ok([c EXCEPT !.track = remote])

\* run_git(["pull", "origin", branch]): refuses on unmerged paths and on an
\* unconcluded merge, else fetches and merges origin/branch into HEAD
GitPull(c) ==
    LET f == [c EXCEPT !.track = remote]
    IN  IF ~hasGit THEN Fail("env", {T_notgit}, c)
        ELSE Fail("env", {T_denied}, c) \cup
             (IF c.unmerged THEN Fail("conflict", {Msg(T_unmerged)}, c)
              ELSE IF c.merging THEN Fail("inprogress", {Msg(T_mergehead)}, c)
              ELSE Fail("env", {T_network}, c) \cup
              (IF c.head.ep # remote.ep THEN Fail("unrelated", {Msg(T_unrelated)}, f)
               ELSE IF Behind(c.head, remote) = 0 THEN Ok(f)
               ELSE IF c.dirty # "no"
                    THEN Fail("env", {IF c.dirty = "kw" THEN T_overwrite_kw
                                      ELSE T_overwrite}, f)
               ELSE IF Ahead(c.head, remote) = 0
                    THEN Ok([f EXCEPT !.head = remote])
               ELSE IF c.clash
                    THEN Fail("conflict", {Msg(T_fix)},
                              [f EXCEPT !.merging = TRUE, !.unmerged = TRUE])
               ELSE IF c.head.x < MaxExtra
                    THEN Ok([f EXCEPT !.head = Rev(remote.ep, remote.n, c.head.x + 1)])
               ELSE {}))

\* run_git(["merge", "--abort"])
abort_merge(c) ==
    IF c.merging
    THEN Ok([c EXCEPT !.merging = FALSE, !.unmerged = FALSE])
    ELSE Fail("env", {T_nomerge}, c)

\* run_git(["reset", "--hard", "origin/<branch>"])
GitResetHard(c) ==
    Fail("env", {T_denied}, c)
    \cup Ok([c EXCEPT !.head = c.track, !.merging = FALSE, !.unmerged = FALSE,
                      !.dirty = "no", !.clash = FALSE])

\* run_git(["clean", "-fd"])
GitClean(c) == Fail("env", {T_denied}, c) \cup Ok(c)

\* hard_reset_to_remote: reset --hard, then clean -fd unless the reset failed;
\* a result also names the commands issued
hard_reset_to_remote(c) ==
    LET r1s == GitResetHard(c)
    IN  { [ok |-> FALSE, text |-> r1.text, st |-> r1.st, issued |-> << "reset" >>]
            : r1 \in { r \in r1s : ~r.ok } }
        \cup UNION { { [ok |-> r2.ok, text |-> r2.text, st |-> r2.st,
                        issued |-> << "reset", "clean" >>] : r2 \in GitClean(r1.st) }
                     : r1 \in { r \in r1s : r.ok } }

\* run_git(["checkout", "-f", branch]): HEAD moves to the local tracked branch
GitCheckout(c) ==
    Fail("env", {T_denied}, c)
    \cup Ok(IF c.tip = NoRev
            THEN [c EXCEPT !.merging = FALSE, !.unmerged = FALSE, !.dirty = "no"]
            ELSE [c EXCEPT !.head = c.tip, !.tip = NoRev,
                           !.merging = FALSE, !.unmerged = FALSE, !.dirty = "no",
                           !.clash = c.clash /\ c.tip.x > 0])

\* get_local_commit / get_remote_commit: the revision, or None
get_local_commit(c)  == { c.head, NoRev }
get_remote_commit(c) == { c.track, NoRev }

\* a variant of has_unmerged_paths that always reports unmerged paths
has_unmerged_paths_Always(c) == { TRUE }

\* has_unmerged_paths: status --porcelain; False when the command fails
has_unmerged_paths(c) == { c.unmerged, FALSE }

\* get_behind_ahead_count: a count whose command fails reads as 0
get_behind_ahead_count(c) ==
    { << b, a >> : b \in { Behind(c.head, c.track), 0 },
                   a \in { Ahead(c.head, c.track), 0 } }

\* _backup_local_folder: copytree to <path>_backup_<timestamp>; a result is
\* [ok, made], made being the timestamp of the folder created, or -1
backup_local_folder ==
    IF ~exists THEN { [ok |-> TRUE, made |-> -1] }
    ELSE { [ok |-> FALSE, made |-> -1] }
         \cup (IF now \in backups THEN {} ELSE { [ok |-> TRUE, made |-> now] })

-----------------------------------------------------------------------------
(* The sync engines.                                                       *)

cloneVars == << head, branch_tip, track, merging, unmerged, dirty, clash >>
otherVars == << regVars, guiVars, moreVars >>
fixedVars == << otherVars, events >>

IsGui == mode \in { "gui_single", "gui_sync", "gui_check", "gui" }

NoSnap == [head |-> NoRev, tip |-> NoRev, track |-> NoRev,
           merging |-> FALSE, unmerged |-> FALSE, dirty |-> "no", clash |-> FALSE]

\* journal of a cycle: log, the lines written so far about the backup and
\* about the force checkout (the code has none for the checkout);
\* failed, the command that failed last and its output; wrote, last_commit
\* was written to repos.json; seturl, a remote set-url was issued (the token
\* is configured); start, HEAD and the working tree when the cycle began
Tree(c) == [head |-> c.head, merging |-> c.merging, unmerged |-> c.unmerged,
            dirty |-> c.dirty]

NoJournal == [log |-> {}, failed |-> << "none", << >> >>, wrote |-> FALSE,
              seturl |-> FALSE, start |-> Tree(NoSnap)]

\* run_git returns (returncode == 0, output): the failure a caller can see
Failed(op, ok, text) == IF ok THEN journal.failed ELSE << op, text >>

\* no pass runs
InitNoPass ==
    /\ plist = << >> /\ pkind = "none" /\ phase = "idle" /\ todo = << >>
    /\ ppos = 1 /\ results = << >> /\ trace = << >>

\* no cycle is followed step by step
InitNoUrl ==
    /\ origin_url = "clean" /\ token = FALSE /\ prog = "none"
    /\ script = << >> /\ last = "none" /\ armed = FALSE /\ netlog = << >>

\* repos.json does not exist
Document(kind, style, list) == [kind |-> kind, style |-> style, subs |-> list]

Absent == Document("absent", "none", << >>)

InitNoStore ==
    /\ disk = Absent /\ prev = Absent /\ sop = << >>
    /\ raised = "none" /\ ret = "none"

InitMore == InitNoPass /\ InitNoUrl /\ InitNoStore

InitOther ==
    /\ file = << >> /\ subs = << >> /\ tree = << >> /\ hist = {}
    /\ is_running = FALSE /\ startup = "pending" /\ queue = << >> /\ workers = {}
    /\ InitMore

InitEngine ==
    /\ mode = "cli" /\ pc = "idle" /\ status = "none" /\ message = << >>
    /\ rec_ok = FALSE /\ runs = 0 /\ snap = NoSnap
    /\ ops = << >> /\ rstart = -1 /\ fails = << >> /\ class0 = << -1, -1 >>
    /\ journal = NoJournal

\* a clone as the clone step leaves it, or its folder gone, or its .git gone
Init ==
    /\ exists \in BOOLEAN /\ hasGit \in BOOLEAN /\ (hasGit => exists)
    /\ head = Rev(0, 0, 0) /\ branch_tip = NoRev
    /\ track = Rev(0, 0, 0) /\ remote = Rev(0, 0, 0)
    /\ merging = FALSE /\ unmerged = FALSE /\ dirty = "no" /\ clash = FALSE
    /\ locale \in BOOLEAN
    /\ now = 0 /\ backups = {}
    /\ last_commit = NoRev
    /\ events = 0
    /\ InitEngine /\ InitOther

Log(seq) == ops' = ops \o seq

\* the cycle ends with an outcome and the text attached to it
Done(kind, text) == pc' = "idle" /\ status' = kind /\ message' = text

\* a cycle begins: its history starts empty
Begin(m) ==
    /\ pc = "idle"
    /\ mode' = m /\ rec_ok' = FALSE /\ snap' = NoSnap
    /\ ops' = << >> /\ rstart' = -1 /\ fails' = << >> /\ class0' = << -1, -1 >>
    /\ journal' = [NoJournal EXCEPT !.start = Tree(Cur)]

\* update_last_commit / _update_last_commit, given what rev-parse HEAD returned
update_last_commit(new_commit) ==
    last_commit' = IF new_commit # NoRev THEN new_commit ELSE last_commit

\* a variant of the opening checks without the folder check
CheckPath_NoFolderCheck(m, needGit, next) ==
    /\ Begin(m)
    /\ IF needGit /\ ~hasGit THEN Done("not-git", << >>)
       ELSE pc' = next /\ status' = "running" /\ message' = << >>
    /\ UNCHANGED << exists, hasGit, locale, cloneVars, remote, now, backups, last_commit,
                    runs, fixedVars >>

\* the folder and .git checks that open a cycle
CheckPath(m, needGit, next) ==
    /\ Begin(m)
    /\ IF ~exists THEN Done("missing", << >>)
       ELSE IF needGit /\ ~hasGit THEN Done("not-git", << >>)
       ELSE pc' = next /\ status' = "running" /\ message' = << >>
    /\ UNCHANGED << exists, hasGit, locale, cloneVars, remote, now, backups, last_commit,
                    runs, fixedVars >>

\* a variant of the probe's fetch that goes on to the comparison when it fails
ProbeFetch_GoesOn(m) ==
    /\ pc = "fetch" /\ mode = m
    /\ \E r \in GitFetch(Cur) :
         /\ Apply(r.st)
         /\ Log(<< "fetch" >>)
         /\ journal' = [journal EXCEPT !.failed = Failed("fetch", r.ok, r.text),
                                       !.seturl = TRUE]
         /\ pc' = "compare" /\ UNCHANGED << status, message >>
    /\ UNCHANGED << exists, hasGit, locale, remote, now, backups, last_commit, mode,
                    rec_ok, runs, snap, rstart, fails, class0, fixedVars >>

\* the probe's fetch
ProbeFetch(m) ==
    /\ pc = "fetch" /\ mode = m
    /\ \E r \in GitFetch(Cur) :
         /\ Apply(r.st)
         /\ Log(<< "fetch" >>)
         /\ journal' = [journal EXCEPT !.failed = Failed("fetch", r.ok, r.text),
                                       !.seturl = TRUE]
         /\ IF r.ok THEN pc' = "compare" /\ UNCHANGED << status, message >>
            ELSE Done("fetch-failed", r.text)
    /\ UNCHANGED << exists, hasGit, locale, remote, now, backups, last_commit, mode,
                    rec_ok, runs, snap, rstart, fails, class0, fixedVars >>

\* each program matches with its own is_merge_conflict_error
ConflictError(m, text) ==
    IF m = "cli" THEN is_merge_conflict_error(text)
    ELSE gui_is_merge_conflict_error(text)

\* a variant of the update that enters recovery after every failed pull
UpdatePull_AlwaysRecovers(m) ==
    /\ pc = "pull" /\ mode = m
    /\ \E r \in GitPull(Cur) :
       \E new_commit \in get_local_commit(r.st) :
         /\ Apply(r.st)
         /\ Log(<< "pull" >>)
         /\ fails' = IF r.ok THEN fails ELSE Append(fails, r.cause)
         /\ journal' = [journal EXCEPT !.failed = Failed("pull", r.ok, r.text),
                                       !.seturl = TRUE,
                                       !.wrote = r.ok /\ new_commit # NoRev]
         /\ IF r.ok
            THEN /\ update_last_commit(new_commit)
                 /\ Done("updated", r.text)
                 /\ UNCHANGED << rstart, snap >>
            ELSE /\ pc' = "rec_abort"
                 /\ rstart' = Len(ops')
                 /\ snap' = r.st
                 /\ UNCHANGED << last_commit, status, message >>
    /\ UNCHANGED << exists, hasGit, locale, remote, now, backups, mode,
                    rec_ok, runs, class0, fixedVars >>

\* the update by pull, and what its failure leads to
UpdatePull(m) ==
    /\ pc = "pull" /\ mode = m
    /\ \E r \in GitPull(Cur) :
       \E u \in has_unmerged_paths(r.st) :
       \E new_commit \in get_local_commit(r.st) :
         /\ Apply(r.st)
         /\ Log(<< "pull" >>)
         /\ fails' = IF r.ok THEN fails ELSE Append(fails, r.cause)
         /\ journal' = [journal EXCEPT !.failed = Failed("pull", r.ok, r.text),
                                       !.seturl = TRUE,
                                       !.wrote = r.ok /\ new_commit # NoRev]
         /\ IF r.ok
            THEN /\ update_last_commit(new_commit)
                 /\ Done("updated", r.text)
                 /\ UNCHANGED << rstart, snap >>
            ELSE IF ConflictError(m, r.text) \/ u
            THEN /\ pc' = "rec_abort"
                 /\ rstart' = Len(ops')
                 /\ snap' = r.st
                 /\ UNCHANGED << last_commit, status, message >>
            ELSE /\ Done("pull-failed", r.text)
                 /\ UNCHANGED << last_commit, rstart, snap >>
    /\ UNCHANGED << exists, hasGit, locale, remote, now, backups, mode,
                    rec_ok, runs, class0, fixedVars >>

\* a variant of the caller that stores HEAD whatever the procedure returned
AfterRecover_WritesAlways(m) ==
    /\ pc = "rec_done" /\ mode = m
    /\ \E new_commit \in get_local_commit(Cur) :
         /\ update_last_commit(new_commit)
         /\ journal' = [journal EXCEPT !.wrote = new_commit # NoRev]
         /\ Done(IF rec_ok THEN "recovered" ELSE "recovery-failed", message)
    /\ UNCHANGED << exists, hasGit, locale, cloneVars, remote, now, backups, mode,
                    rec_ok, runs, snap, ops, rstart, fails, class0, fixedVars >>

\* the caller after the recovery procedure returned
AfterRecover(m) ==
    /\ pc = "rec_done" /\ mode = m
    /\ IF rec_ok
       THEN \E new_commit \in get_local_commit(Cur) :
              /\ update_last_commit(new_commit)
              /\ journal' = [journal EXCEPT !.wrote = new_commit # NoRev]
              /\ Done("recovered", message)
       ELSE /\ Done("recovery-failed", message)
            /\ UNCHANGED << last_commit, journal >>
    /\ UNCHANGED << exists, hasGit, locale, cloneVars, remote, now, backups, mode,
                    rec_ok, runs, snap, ops, rstart, fails, class0, fixedVars >>

\* ---- gitsync.py: sync_repository
sync_repository_check == CheckPath("cli", TRUE, "fetch")

sync_repository_fetch == ProbeFetch("cli")

\* a variant of the comparison that pulls although the commits are equal
sync_repository_compare_AlwaysPulls ==
    /\ pc = "compare" /\ mode = "cli"
    /\ \E local_commit \in get_local_commit(Cur) :
       \E remote_commit \in get_remote_commit(Cur) :
         IF local_commit = NoRev \/ remote_commit = NoRev
         THEN Done("commit-failed", << >>)
         ELSE pc' = "pull" /\ UNCHANGED << status, message >>
    /\ UNCHANGED << exists, hasGit, locale, cloneVars, remote, now, backups, last_commit,
                    mode, rec_ok, runs, snap, ops, rstart, fails, class0, journal,
                    fixedVars >>

sync_repository_compare ==
    /\ pc = "compare" /\ mode = "cli"
    /\ \E local_commit \in get_local_commit(Cur) :
       \E remote_commit \in get_remote_commit(Cur) :
         IF local_commit = NoRev \/ remote_commit = NoRev
         THEN Done("commit-failed", << >>)
         ELSE IF local_commit = remote_commit
         THEN Done("up-to-date", << >>)
         ELSE pc' = "pull" /\ UNCHANGED << status, message >>
    /\ UNCHANGED << exists, hasGit, locale, cloneVars, remote, now, backups, last_commit,
                    mode, rec_ok, runs, snap, ops, rstart, fails, class0, journal,
                    fixedVars >>

sync_repository_pull == UpdatePull("cli")

sync_repository_recovered == AfterRecover("cli")

\* ---- gitsync_gui.py: _check_and_update_single_thread
check_and_update_single_check == CheckPath("gui_single", TRUE, "fetch")

check_and_update_single_fetch == ProbeFetch("gui_single")

\* a variant of the classification without the ahead case
check_and_update_single_compare_NoAhead ==
    /\ pc = "compare" /\ mode = "gui_single"
    /\ \E local_commit \in get_local_commit(Cur) :
       \E remote_commit \in get_remote_commit(Cur) :
       \E ba \in get_behind_ahead_count(Cur) :
         IF local_commit = NoRev \/ remote_commit = NoRev
         THEN Done("commit-failed", << >>) /\ UNCHANGED class0
         ELSE /\ class0' = ba
              /\ IF ba[1] = 0 /\ ba[2] = 0
                 THEN Done("up-to-date", << >>)
                 ELSE pc' = "pull" /\ UNCHANGED << status, message >>
    /\ UNCHANGED << exists, hasGit, locale, cloneVars, remote, now, backups, last_commit,
                    mode, rec_ok, runs, snap, ops, rstart, fails, journal, fixedVars >>

check_and_update_single_compare ==
    /\ pc = "compare" /\ mode = "gui_single"
    /\ \E local_commit \in get_local_commit(Cur) :
       \E remote_commit \in get_remote_commit(Cur) :
       \E ba \in get_behind_ahead_count(Cur) :
         IF local_commit = NoRev \/ remote_commit = NoRev
         THEN Done("commit-failed", << >>) /\ UNCHANGED class0
         ELSE /\ class0' = ba
              /\ IF ba[1] = 0 /\ ba[2] = 0
                 THEN Done("up-to-date", << >>)
                 ELSE IF ba[1] = 0 /\ ba[2] > 0
                 THEN pc' = "ahead_backup" /\ UNCHANGED << status, message >>
                 ELSE pc' = "pull" /\ UNCHANGED << status, message >>
    /\ UNCHANGED << exists, hasGit, locale, cloneVars, remote, now, backups, last_commit,
                    mode, rec_ok, runs, snap, ops, rstart, fails, journal, fixedVars >>

\* the ahead path: backup, then hard reset, then the registry write
check_and_update_single_ahead_backup ==
    /\ pc = "ahead_backup" /\ mode = "gui_single"
    /\ \E b \in backup_local_folder :
         /\ backups' = IF b.made >= 0 THEN backups \cup { b.made } ELSE backups
         /\ journal' = [journal EXCEPT
                          !.failed = Failed("backup", b.ok, << >>),
                          !.log = IF b.ok /\ b.made >= 0
                                  THEN @ \cup { "backup-done" } ELSE @]
    /\ Log(<< "backup" >>)
    /\ pc' = "ahead_reset"
    /\ UNCHANGED << exists, hasGit, locale, cloneVars, remote, now, last_commit, mode,
                    status, message, rec_ok, runs, snap, rstart, fails, class0,
                    fixedVars >>

check_and_update_single_ahead_reset ==
    /\ pc = "ahead_reset" /\ mode = "gui_single"
    /\ \E r \in hard_reset_to_remote(Cur) :
       \E new_commit \in get_local_commit(r.st) :
         /\ Apply(r.st)
         /\ Log(r.issued)
         /\ journal' = [journal EXCEPT
                          !.failed = Failed(r.issued[Len(r.issued)], r.ok, r.text),
                          !.wrote = r.ok /\ new_commit # NoRev]
         /\ IF r.ok
            THEN update_last_commit(new_commit) /\ Done("reset-done", << >>)
            ELSE Done("reset-failed", r.text) /\ UNCHANGED last_commit
    /\ UNCHANGED << exists, hasGit, locale, remote, now, backups, mode,
                    rec_ok, runs, snap, rstart, fails, class0, fixedVars >>

check_and_update_single_pull == UpdatePull("gui_single")

check_and_update_single_recovered == AfterRecover("gui_single")

\* ---- gitsync_gui.py: _sync_repos (forced update, startup auto-update)
sync_repos_check == CheckPath("gui_sync", FALSE, "pull")

sync_repos_pull == UpdatePull("gui_sync")

sync_repos_recovered == AfterRecover("gui_sync")

\* ---- gitsync_gui.py: _check_selected_updates_thread (check only)
check_selected_updates_check == CheckPath("gui_check", TRUE, "fetch")

\* a variant of the check's probe that pulls instead of fetching
check_selected_updates_fetch_Pulls ==
    /\ pc = "fetch" /\ mode = "gui_check"
    /\ \E r \in GitPull(Cur) :
         /\ Apply(r.st)
         /\ Log(<< "pull" >>)
         /\ journal' = [journal EXCEPT !.failed = Failed("pull", r.ok, r.text),
                                       !.seturl = TRUE]
         /\ IF r.ok THEN pc' = "compare" /\ UNCHANGED << status, message >>
            ELSE Done("fetch-failed", r.text)
    /\ UNCHANGED << exists, hasGit, locale, remote, now, backups, last_commit, mode,
                    rec_ok, runs, snap, rstart, fails, class0, fixedVars >>

check_selected_updates_fetch == ProbeFetch("gui_check")

\* a variant of the classification that tells diverged from behind
check_selected_updates_compare_FourWay ==
    /\ pc = "compare" /\ mode = "gui_check"
    /\ \E local_commit \in get_local_commit(Cur) :
       \E remote_commit \in get_remote_commit(Cur) :
       \E ba \in get_behind_ahead_count(Cur) :
         IF local_commit = NoRev \/ remote_commit = NoRev
         THEN Done("commit-failed", << >>) /\ UNCHANGED class0
         ELSE /\ class0' = ba
              /\ IF ba[1] = 0 /\ ba[2] = 0
                 THEN Done("up-to-date", << >>)
                 ELSE IF ba[1] = 0 /\ ba[2] > 0
                 THEN Done("update-available", << "ahead" >>)
                 ELSE IF ba[2] = 0
                 THEN Done("update-available", << "behind" >>)
                 ELSE Done("update-available", << "diverged" >>)
    /\ UNCHANGED << exists, hasGit, locale, cloneVars, remote, now, backups, last_commit,
                    mode, rec_ok, runs, snap, ops, rstart, fails, journal, fixedVars >>

\* the entry of check_results: its status, and the count it carries
\* ("ahead" with the tree label of a forced reset, "behind" otherwise)
check_selected_updates_compare ==
    /\ pc = "compare" /\ mode = "gui_check"
    /\ \E local_commit \in get_local_commit(Cur) :
       \E remote_commit \in get_remote_commit(Cur) :
       \E ba \in get_behind_ahead_count(Cur) :
         IF local_commit = NoRev \/ remote_commit = NoRev
         THEN Done("commit-failed", << >>) /\ UNCHANGED class0
         ELSE /\ class0' = ba
              /\ IF ba[1] = 0 /\ ba[2] = 0
                 THEN Done("up-to-date", << >>)
                 ELSE IF ba[1] = 0 /\ ba[2] > 0
                 THEN Done("update-available", << "ahead" >>)
                 ELSE Done("update-available", << "behind" >>)
    /\ UNCHANGED << exists, hasGit, locale, cloneVars, remote, now, backups, last_commit,
                    mode, rec_ok, runs, snap, ops, rstart, fails, journal, fixedVars >>

-----------------------------------------------------------------------------
(* The recovery procedure: auto_recover_and_pull (gitsync.py) and          *)
(* _auto_recover_and_pull (gitsync_gui.py).                                *)

\* the procedure returns (ok, text) to its caller
Return(ok, text) == pc' = "rec_done" /\ rec_ok' = ok /\ message' = text

\* 1) merge --abort; its result is not read
RecAbort(next) ==
    /\ pc = "rec_abort"
    /\ \E r \in abort_merge(Cur) :
         /\ Apply(r.st)
         /\ journal' = [journal EXCEPT !.failed = Failed("abort", r.ok, r.text)]
    /\ Log(<< "abort" >>)
    /\ pc' = next
    /\ UNCHANGED << exists, hasGit, locale, remote, now, backups, last_commit, mode, status,
                    message, rec_ok, runs, snap, rstart, fails, class0, fixedVars >>

\* a variant of step 2 that goes on to the next step after a successful pull
RecRetry_GoesOn(next) ==
    /\ pc = "rec_retry"
    /\ \E r \in GitPull(Cur) :
         /\ Apply(r.st)
         /\ Log(<< "pull" >>)
         /\ fails' = IF r.ok THEN fails ELSE Append(fails, r.cause)
         /\ journal' = [journal EXCEPT !.failed = Failed("pull", r.ok, r.text)]
         /\ pc' = next /\ UNCHANGED << rec_ok, message >>
    /\ UNCHANGED << exists, hasGit, locale, remote, now, backups, last_commit, mode, status,
                    runs, snap, rstart, class0, fixedVars >>

\* 2) the pull again; on failure, the check whether it is still a conflict
RecRetry(next) ==
    /\ pc = "rec_retry"
    /\ \E r \in GitPull(Cur) :
       \E u \in has_unmerged_paths(r.st) :
         /\ Apply(r.st)
         /\ Log(<< "pull" >>)
         /\ fails' = IF r.ok THEN fails ELSE Append(fails, r.cause)
         /\ journal' = [journal EXCEPT !.failed = Failed("pull", r.ok, r.text)]
         /\ IF r.ok THEN Return(TRUE, r.text)
            ELSE IF ~(ConflictError(mode, r.text) \/ u) THEN Return(FALSE, r.text)
            ELSE pc' = next /\ UNCHANGED << rec_ok, message >>
    /\ UNCHANGED << exists, hasGit, locale, remote, now, backups, last_commit, mode, status,
                    runs, snap, rstart, class0, fixedVars >>

\* a variant of step 3 that goes on to the reset after a failed fetch
RecFetch_GoesOn ==
    /\ pc = "rec_fetch"
    /\ \E r \in GitFetch(Cur) :
         /\ Apply(r.st)
         /\ Log(<< "fetch" >>)
         /\ journal' = [journal EXCEPT !.failed = Failed("fetch", r.ok, r.text)]
         /\ pc' = "rec_reset" /\ UNCHANGED << rec_ok, message >>
    /\ UNCHANGED << exists, hasGit, locale, remote, now, backups, last_commit, mode, status,
                    runs, snap, rstart, fails, class0, fixedVars >>

\* 3) fetch
RecFetch ==
    /\ pc = "rec_fetch"
    /\ \E r \in GitFetch(Cur) :
         /\ Apply(r.st)
         /\ Log(<< "fetch" >>)
         /\ journal' = [journal EXCEPT !.failed = Failed("fetch", r.ok, r.text)]
         /\ IF r.ok THEN pc' = "rec_reset" /\ UNCHANGED << rec_ok, message >>
            ELSE Return(FALSE, << "fetch", "failed:" >> \o r.text)
    /\ UNCHANGED << exists, hasGit, locale, remote, now, backups, last_commit, mode, status,
                    runs, snap, rstart, fails, class0, fixedVars >>

\* 4) reset --hard origin/branch and clean -fd
RecReset ==
    /\ pc = "rec_reset"
    /\ \E r \in hard_reset_to_remote(Cur) :
         /\ Apply(r.st)
         /\ Log(r.issued)
         /\ journal' = [journal EXCEPT
                          !.failed = Failed(r.issued[Len(r.issued)], r.ok, r.text)]
         /\ IF r.ok THEN pc' = "rec_checkout" /\ UNCHANGED << rec_ok, message >>
            ELSE Return(FALSE, << "reset/clean", "failed:" >> \o r.text)
    /\ UNCHANGED << exists, hasGit, locale, remote, now, backups, last_commit, mode, status,
                    runs, snap, rstart, fails, class0, fixedVars >>

\* a variant of step 5 that ends the run when the checkout fails
RecCheckout_Fatal ==
    /\ pc = "rec_checkout"
    /\ \E r \in GitCheckout(Cur) :
         /\ Apply(r.st)
         /\ journal' = [journal EXCEPT !.failed = Failed("checkout", r.ok, r.text)]
         /\ IF r.ok THEN pc' = "rec_final" /\ UNCHANGED << rec_ok, message >>
            ELSE Return(FALSE, r.text)
    /\ Log(<< "checkout" >>)
    /\ UNCHANGED << exists, hasGit, locale, remote, now, backups, last_commit, mode, status,
                    runs, snap, rstart, fails, class0, fixedVars >>

\* 5) checkout -f branch; its result is not read
RecCheckout ==
    /\ pc = "rec_checkout"
    /\ \E r \in GitCheckout(Cur) :
         /\ Apply(r.st)
         /\ journal' = [journal EXCEPT !.failed = Failed("checkout", r.ok, r.text)]
    /\ Log(<< "checkout" >>)
    /\ pc' = "rec_final"
    /\ UNCHANGED << exists, hasGit, locale, remote, now, backups, last_commit, mode, status,
                    message, rec_ok, runs, snap, rstart, fails, class0, fixedVars >>

\* a variant of step 6 that reports success whatever the final pull returned
RecFinal_IgnoresResult ==
    /\ pc = "rec_final"
    /\ \E r \in GitPull(Cur) :
         /\ Apply(r.st)
         /\ Log(<< "pull" >>)
         /\ fails' = IF r.ok THEN fails ELSE Append(fails, r.cause)
         /\ journal' = [journal EXCEPT !.failed = Failed("pull", r.ok, r.text)]
         /\ Return(TRUE, r.text)
    /\ UNCHANGED << exists, hasGit, locale, remote, now, backups, last_commit, mode, status,
                    runs, snap, rstart, class0, fixedVars >>

\* a variant of step 6 whose outcome also depends on the force checkout
RecFinal_NeedsCheckout ==
    /\ pc = "rec_final"
    /\ \E r \in GitPull(Cur) :
         /\ Apply(r.st)
         /\ Log(<< "pull" >>)
         /\ fails' = IF r.ok THEN fails ELSE Append(fails, r.cause)
         /\ journal' = [journal EXCEPT !.failed = Failed("pull", r.ok, r.text)]
         /\ Return(r.ok /\ journal.failed[1] # "checkout", r.text)
    /\ UNCHANGED << exists, hasGit, locale, remote, now, backups, last_commit, mode, status,
                    runs, snap, rstart, class0, fixedVars >>

\* 6) the final pull decides
RecFinal ==
    /\ pc = "rec_final"
    /\ \E r \in GitPull(Cur) :
         /\ Apply(r.st)
         /\ Log(<< "pull" >>)
         /\ fails' = IF r.ok THEN fails ELSE Append(fails, r.cause)
         /\ journal' = [journal EXCEPT !.failed = Failed("pull", r.ok, r.text)]
         /\ Return(r.ok, r.text)
    /\ UNCHANGED << exists, hasGit, locale, remote, now, backups, last_commit, mode, status,
                    runs, snap, rstart, class0, fixedVars >>

\* ---- gitsync.py: auto_recover_and_pull (no backup step)
auto_recover_and_pull_abort    == ~IsGui /\ RecAbort("rec_retry")
auto_recover_and_pull_retry    == ~IsGui /\ RecRetry("rec_fetch")
auto_recover_and_pull_fetch    == ~IsGui /\ RecFetch
auto_recover_and_pull_reset    == ~IsGui /\ RecReset
auto_recover_and_pull_checkout == ~IsGui /\ RecCheckout
auto_recover_and_pull_final    == ~IsGui /\ RecFinal

\* ---- gitsync_gui.py: _auto_recover_and_pull
gui_auto_recover_and_pull_abort    == IsGui /\ RecAbort("rec_retry")
gui_auto_recover_and_pull_retry    == IsGui /\ RecRetry("rec_backup")
gui_auto_recover_and_pull_backup ==
    /\ IsGui /\ pc = "rec_backup"
    /\ \E b \in backup_local_folder :
         /\ backups' = IF b.made >= 0 THEN backups \cup { b.made } ELSE backups
         /\ journal' = [journal EXCEPT
                          !.failed = Failed("backup", b.ok, << >>),
                          !.log = IF b.ok /\ b.made >= 0
                                  THEN @ \cup { "backup-done" }
                                  ELSE IF ~b.ok THEN @ \cup { "backup-warning" }
                                  ELSE @]
    /\ Log(<< "backup" >>)
    /\ pc' = "rec_fetch"
    /\ UNCHANGED << exists, hasGit, locale, cloneVars, remote, now, last_commit, mode,
                    status, message, rec_ok, runs, snap, rstart, fails, class0,
                    fixedVars >>
gui_auto_recover_and_pull_fetch    == IsGui /\ RecFetch
gui_auto_recover_and_pull_reset    == IsGui /\ RecReset
gui_auto_recover_and_pull_checkout == IsGui /\ RecCheckout
gui_auto_recover_and_pull_final    == IsGui /\ RecFinal

Recovery ==
    \/ auto_recover_and_pull_abort
    \/ auto_recover_and_pull_retry
    \/ auto_recover_and_pull_fetch
    \/ auto_recover_and_pull_reset
    \/ auto_recover_and_pull_checkout
    \/ auto_recover_and_pull_final
    \/ gui_auto_recover_and_pull_abort
    \/ gui_auto_recover_and_pull_retry
    \/ gui_auto_recover_and_pull_backup
    \/ gui_auto_recover_and_pull_fetch
    \/ gui_auto_recover_and_pull_reset
    \/ gui_auto_recover_and_pull_checkout
    \/ gui_auto_recover_and_pull_final

-----------------------------------------------------------------------------
(* The world around a cycle.                                               *)

engineVars == << mode, pc, status, message, rec_ok, runs, snap,
                 ops, rstart, fails, class0, journal >>

\* the report of a finished cycle is consumed before the world moves on
Consumed ==
    /\ events < MaxEvents
    /\ events' = events + 1
    /\ IF pc = "idle"
       THEN /\ mode' = "cli" /\ status' = "none" /\ message' = << >>
            /\ rec_ok' = FALSE /\ snap' = NoSnap
            /\ ops' = << >> /\ rstart' = -1 /\ fails' = << >> /\ class0' = << -1, -1 >>
            /\ journal' = NoJournal
            /\ UNCHANGED << pc, runs >>
       ELSE UNCHANGED engineVars

\* the remote branch gains a commit
RemotePush ==
    /\ remote.n < MaxRev
    /\ remote' = Rev(remote.ep, remote.n + 1, 0)
    /\ Consumed
    /\ UNCHANGED << exists, hasGit, locale, cloneVars, now, backups, last_commit, otherVars >>

\* the remote history is replaced by an unrelated one (force push)
RemoteReplace ==
    /\ pc = "idle"
    /\ remote.ep < MaxEpoch
    /\ remote' = Rev(remote.ep + 1, 0, 0)
    /\ Consumed
    /\ UNCHANGED << exists, hasGit, locale, cloneVars, now, backups, last_commit, otherVars >>

\* the user commits in the clone between two cycles
LocalCommit ==
    /\ pc = "idle" /\ hasGit /\ ~merging /\ ~unmerged
    /\ head.x < MaxExtra
    /\ head' = [head EXCEPT !.x = head.x + 1]
    /\ \E c \in BOOLEAN : clash' = c
    /\ Consumed
    /\ UNCHANGED << exists, hasGit, locale, branch_tip, track, merging, unmerged,
                    dirty, remote, now, backups, last_commit, otherVars >>

\* the user edits files without committing
LocalEdit ==
    /\ pc = "idle" /\ hasGit /\ dirty = "no"
    /\ \E d \in { "plain", "kw" } : dirty' = d
    /\ Consumed
    /\ UNCHANGED << exists, hasGit, locale, head, branch_tip, track, merging,
                    unmerged, clash, remote, now, backups, last_commit, otherVars >>

\* the user leaves a merge unconcluded (with or without unmerged paths), or
\* unmerged paths without a merge (stash pop, cherry-pick), between two cycles
LocalConflict ==
    /\ pc = "idle" /\ hasGit /\ ~merging /\ ~unmerged
    /\ \E m \in BOOLEAN, u \in BOOLEAN :
         /\ m \/ u
         /\ merging' = m /\ unmerged' = u
    /\ Consumed
    /\ UNCHANGED << exists, hasGit, locale, head, branch_tip, track, dirty, clash,
                    remote, now, backups, last_commit, otherVars >>

\* the user detaches HEAD (or switches to another branch) at the same commit
LocalDetach ==
    /\ pc = "idle" /\ hasGit /\ ~merging /\ ~unmerged
    /\ branch_tip = NoRev
    /\ branch_tip' = head
    /\ Consumed
    /\ UNCHANGED << exists, hasGit, locale, head, track, merging, unmerged, dirty,
                    clash, remote, now, backups, last_commit, otherVars >>

\* the clock is read by the backup step only: the time that passed since
\* the last backup is counted when the next one is about to start
Tick ==
    /\ pc \in { "ahead_backup", "rec_backup" }
    /\ now < MaxClock
    /\ now' = now + 1
    /\ UNCHANGED << exists, hasGit, locale, cloneVars, remote, backups, last_commit,
                    engineVars, fixedVars >>

Next ==
    \/ sync_repository_check
    \/ sync_repository_fetch
    \/ sync_repository_compare
    \/ sync_repository_pull
    \/ sync_repository_recovered
    \/ check_and_update_single_check
    \/ check_and_update_single_fetch
    \/ check_and_update_single_compare
    \/ check_and_update_single_ahead_backup
    \/ check_and_update_single_ahead_reset
    \/ check_and_update_single_pull
    \/ check_and_update_single_recovered
    \/ sync_repos_check
    \/ sync_repos_pull
    \/ sync_repos_recovered
    \/ check_selected_updates_check
    \/ check_selected_updates_fetch
    \/ check_selected_updates_compare
    \/ Recovery
    \/ RemotePush
    \/ RemoteReplace
    \/ LocalCommit
    \/ LocalEdit
    \/ LocalConflict
    \/ LocalDetach
    \/ Tick

Spec == Init /\ [][Next]_vars

-----------------------------------------------------------------------------
(* The recovery procedure called on its own, twice in succession, on a     *)
(* clone in any state and with the remote left alone.                      *)

RemoteRevs == { Rev(e, k, 0) : e \in 0..MaxEpoch, k \in 0..MaxRev }

\* t is an earlier (or the same) state of the remote branch than r
NotAfter(t, r) == t.ep < r.ep \/ (t.ep = r.ep /\ t.n <= r.n)

InitRec ==
    /\ exists = TRUE /\ hasGit = TRUE
    /\ locale \in BOOLEAN
    /\ remote \in RemoteRevs
    /\ track \in { t \in RemoteRevs : NotAfter(t, remote) }
    /\ head \in { Rev(t.ep, t.n, l) : t \in { u \in RemoteRevs : NotAfter(u, track) },
                                      l \in 0..MaxExtra }
    /\ branch_tip \in { NoRev, Rev(head.ep, head.n, 0) }
    /\ merging \in BOOLEAN /\ unmerged \in BOOLEAN
    /\ dirty \in { "no", "plain", "kw" }
    /\ clash \in { c \in BOOLEAN : c => head.x > 0 }
    /\ now = 0 /\ backups = {}
    /\ last_commit = NoRev
    /\ events = 0
    /\ InitEngine /\ InitOther

\* auto_recover_and_pull / _auto_recover_and_pull is called: a first time,
\* or again by the same program after a run that returned success
recover_call(m) ==
    /\ pc = "idle" /\ runs < 2
    /\ runs = 1 => (status = "recovered" /\ m = mode)
    /\ runs' = runs + 1
    /\ mode' = m /\ pc' = "rec_abort" /\ status' = "running" /\ message' = << >>
    /\ rec_ok' = FALSE /\ snap' = Cur
    /\ ops' = << >> /\ rstart' = 0 /\ fails' = << >>
    /\ journal' = [NoJournal EXCEPT !.start = Tree(Cur)]
    /\ UNCHANGED << exists, hasGit, locale, cloneVars, remote, now, backups, last_commit,
                    class0, fixedVars >>

\* the call returns (ok, text)
recover_return ==
    /\ pc = "rec_done"
    /\ pc' = "idle"
    /\ status' = IF rec_ok THEN "recovered" ELSE "recovery-failed"
    /\ UNCHANGED << exists, hasGit, locale, cloneVars, remote, now, backups, last_commit,
                    mode, message, rec_ok, runs, snap, ops, rstart, fails, class0,
                    journal, fixedVars >>

NextRec ==
    \/ \E m \in { "cli", "gui" } : recover_call(m)
    \/ recover_return
    \/ Recovery
    \/ Tick

SpecRec == InitRec /\ [][NextRec]_vars

-----------------------------------------------------------------------------
(* repos.json and self.subscriptions.  A record keeps the fields the       *)
(* operations write: repo, auto_update ("on", "off", or "unset" when the   *)
(* key is missing) and last_commit (0 for the empty string).               *)

Repos == { "a/x", "b/y" }

Record(r, a, c) == [repo |-> r, auto_update |-> a, last_commit |-> c]

\* sub.get("auto_update", True) and sub.get("auto_update", False)
AutoDefaultTrue(sub)  == sub.auto_update # "off"
AutoDefaultFalse(sub) == sub.auto_update = "on"

AutoValue(b) == IF b THEN "on" ELSE "off"

RepoNames(list) == { list[i].repo : i \in DOMAIN list }

\* next((i for i, s in enumerate(list) if s["repo"] == repo)), 0 when absent
IndexOf(list, repo) ==
    IF repo \in RepoNames(list)
    THEN CHOOSE i \in DOMAIN list :
           /\ list[i].repo = repo
           /\ \A j \in 1..(i - 1) : list[j].repo # repo
    ELSE 0

\* list.pop(i) and list.insert(i, e), i counted from 1
RemoveAt(list, i) == SubSeq(list, 1, i - 1) \o SubSeq(list, i + 1, Len(list))
InsertAt(list, i, e) == SubSeq(list, 1, i - 1) \o << e >> \o SubSeq(list, i, Len(list))

IsOn(sub)  == AutoDefaultTrue(sub)
IsOff(sub) == ~AutoDefaultTrue(sub)

\* a stable sort that puts the records with auto-update on first
GroupSort(list) == SelectSeq(list, IsOn) \o SelectSeq(list, IsOff)

\* the rows of _refresh_tree_order: the records, in order, that had a row
RowsOf(list, rows) ==
    LET InRows(sub) == \E i \in DOMAIN rows : rows[i] = sub.repo
        kept == SelectSeq(list, InRows)
    IN  [i \in 1..Len(kept) |-> kept[i].repo]

\* the latest value persisted for each repo by the operations that own it
Persist(h, repo, c) == { p \in h : p[1] # repo } \cup { << repo, c >> }

InitFiles ==
    { << >> }
    \cup { << Record(r, a, 0) >> : r \in Repos, a \in { "on", "off", "unset" } }
    \cup { << Record("a/x", a, 0), Record("b/y", b, 0) >> :
             a \in { "on", "off", "unset" }, b \in { "on", "off", "unset" } }

\* a fresh clone and an idle engine
InitQuiet ==
    /\ exists = TRUE /\ hasGit = TRUE
    /\ head = Rev(0, 0, 0) /\ branch_tip = NoRev
    /\ track = Rev(0, 0, 0) /\ remote = Rev(0, 0, 0)
    /\ merging = FALSE /\ unmerged = FALSE /\ dirty = "no" /\ clash = FALSE
    /\ locale = FALSE
    /\ now = 0 /\ backups = {}
    /\ last_commit = NoRev
    /\ events = 0
    /\ InitEngine

InitReg ==
    /\ InitQuiet /\ InitMore
    /\ is_running = FALSE /\ startup = "pending" /\ queue = << >> /\ workers = {}
    /\ file \in InitFiles
    /\ subs = << >> /\ tree = << >>
    /\ hist = { << file[i].repo, file[i].last_commit >> : i \in DOMAIN file }

\* refresh_list: load the file; the rows are sorted, the list is not
refresh_list ==
    /\ subs' = file
    /\ tree' = LET sorted == GroupSort(file)
               IN  [i \in 1..Len(sorted) |-> sorted[i].repo]
    /\ UNCHANGED << file, hist, syncVars, guiVars, moreVars >>

\* _update_last_commit (GUI) and update_last_commit (CLI): load, set the
\* field of the record of repo, save
store_last_commit(repo, commit_sha) ==
    /\ repo \in RepoNames(file)
    /\ file' = [file EXCEPT ![IndexOf(file, repo)].last_commit = commit_sha]
    /\ hist' = Persist(hist, repo, commit_sha)
    /\ UNCHANGED << subs, tree, syncVars, guiVars, moreVars >>

\* gitclone.py add_subscription: load, append a record unless the repo has
\* one, save
add_subscription(repo) ==
    /\ IF repo \in RepoNames(file)
       THEN UNCHANGED << file, hist >>
       ELSE /\ file' = Append(file, Record(repo, "on", 0))
            /\ hist' = Persist(hist, repo, 0)
    /\ UNCHANGED << subs, tree, syncVars, guiVars, moreVars >>

\* gitsync.py remove_subscription: load, drop the record of repo, save when
\* one went
remove_subscription(repo) ==
    /\ repo \in RepoNames(file)
    /\ file' = SelectSeq(file, LAMBDA s : s.repo # repo)
    /\ hist' = { p \in hist : p[1] # repo }
    /\ UNCHANGED << subs, tree, syncVars, guiVars, moreVars >>

\* a variant of the toggle that always puts the record at the end
toggle_auto_update_AppendsAlways(repo) ==
    /\ \E i \in DOMAIN tree : tree[i] = repo
    /\ repo \in RepoNames(subs)
    /\ LET idx == IndexOf(subs, repo)
           new_state == ~AutoDefaultFalse(subs[idx])
           removed_sub == [subs[idx] EXCEPT !.auto_update = AutoValue(new_state)]
       IN  /\ subs' = Append(RemoveAt(subs, idx), removed_sub)
           /\ file' = subs'
           /\ tree' = RowsOf(subs', tree)
    /\ UNCHANGED << hist, syncVars, guiVars, moreVars >>

\* _toggle_auto_update: a click on the auto-update cell of a row
toggle_auto_update(repo) ==
    /\ \E i \in DOMAIN tree : tree[i] = repo
    /\ repo \in RepoNames(subs)
    /\ LET idx == IndexOf(subs, repo)
           new_state == ~AutoDefaultFalse(subs[idx])
           removed_sub == [subs[idx] EXCEPT !.auto_update = AutoValue(new_state)]
           rest == RemoveAt(subs, idx)
           checked == { i \in DOMAIN rest : AutoDefaultTrue(rest[i]) }
           last_checked_idx == IF checked = {} THEN 0
                               ELSE CHOOSE i \in checked : \A j \in checked : j <= i
           insert_idx == IF new_state THEN last_checked_idx + 1 ELSE Len(rest) + 1
       IN  /\ subs' = InsertAt(rest, insert_idx, removed_sub)
           /\ file' = subs'
           /\ tree' = RowsOf(subs', tree)
    /\ UNCHANGED << hist, syncVars, guiVars, moreVars >>

\* a variant of the bulk set that leaves the list in the order it had
menu_set_auto_update_selected_NoSort(selection, new_state) ==
    /\ ~is_running
    /\ selection # {}
    /\ \A r \in selection : \E i \in DOMAIN tree : tree[i] = r
    /\ LET hit(i) == /\ subs[i].repo \in selection
                     /\ AutoDefaultFalse(subs[i]) # new_state
           set == [i \in DOMAIN subs |->
                     IF hit(i) THEN [subs[i] EXCEPT !.auto_update = AutoValue(new_state)]
                     ELSE subs[i]]
       IN  /\ \E i \in DOMAIN subs : hit(i)
           /\ subs' = set
           /\ file' = subs'
           /\ tree' = RowsOf(subs', tree)
    /\ UNCHANGED << hist, syncVars, guiVars, moreVars >>

\* menu_set_auto_update_selected: set auto-update of the selected rows
menu_set_auto_update_selected(selection, new_state) ==
    /\ ~is_running
    /\ selection # {}
    /\ \A r \in selection : \E i \in DOMAIN tree : tree[i] = r
    /\ LET hit(i) == /\ subs[i].repo \in selection
                     /\ AutoDefaultFalse(subs[i]) # new_state
           set == [i \in DOMAIN subs |->
                     IF hit(i) THEN [subs[i] EXCEPT !.auto_update = AutoValue(new_state)]
                     ELSE subs[i]]
       IN  /\ \E i \in DOMAIN subs : hit(i)
           /\ subs' = GroupSort(set)
           /\ file' = subs'
           /\ tree' = RowsOf(subs', tree)
    /\ UNCHANGED << hist, syncVars, guiVars, moreVars >>

\* _reorder_items: a row dragged onto another row of the same group
reorder_items(source_item, target_item) ==
    /\ source_item # target_item
    /\ \E i \in DOMAIN tree : tree[i] = source_item
    /\ \E i \in DOMAIN tree : tree[i] = target_item
    /\ source_item \in RepoNames(subs) /\ target_item \in RepoNames(subs)
    /\ AutoDefaultTrue(subs[IndexOf(subs, source_item)])
         = AutoDefaultTrue(subs[IndexOf(subs, target_item)])
    /\ LET source_idx == CHOOSE i \in DOMAIN tree : tree[i] = source_item
           target_idx == CHOOSE i \in DOMAIN tree : tree[i] = target_item
           items_list == InsertAt(RemoveAt(tree, source_idx), target_idx, source_item)
           found == SelectSeq(items_list, LAMBDA r : r \in RepoNames(subs))
       IN  /\ tree' = items_list
           /\ subs' = [i \in 1..Len(found) |-> subs[IndexOf(subs, found[i])]]
           /\ file' = subs'
    /\ UNCHANGED << hist, syncVars, guiVars, moreVars >>

NextReg ==
    \/ refresh_list
    \/ \E r \in Repos, c \in 1..MaxSha : store_last_commit(r, c)
    \/ \E r \in Repos : add_subscription(r)
    \/ \E r \in Repos : remove_subscription(r)
    \/ \E r \in Repos : toggle_auto_update(r)
    \/ \E sel \in SUBSET Repos, b \in BOOLEAN : menu_set_auto_update_selected(sel, b)
    \/ \E r1 \in Repos, r2 \in Repos : reorder_items(r1, r2)

SpecReg == InitReg /\ [][NextReg]_vars

-----------------------------------------------------------------------------
(* The GUI's threads.  The main thread runs the handlers and the callbacks *)
(* posted with root.after(0, ...); a worker is [id, kind, at]: its thread  *)
(* function and its position in it.                                        *)

Kinds == { "auto", "update_selected", "check_selected", "sync", "reclone" }

FreeIds == (1..MaxWorkers) \ { w.id : w \in workers }

\* threading.Thread(target=...).start()
Start(kind) ==
    /\ FreeIds # {}
    /\ workers' = workers \cup { [id |-> CHOOSE i \in FreeIds : TRUE,
                                  kind |-> kind, at |-> "begin"] }

\* root.after(0, lambda: self.set_running(value))
Post(value) ==
    /\ Len(queue) < MaxQueue
    /\ queue' = Append(queue, value)

Move(w, at) == workers' = (workers \ { w }) \cup { [w EXCEPT !.at = at] }

InitGui ==
    /\ InitQuiet /\ InitMore
    /\ file = << >> /\ subs = << >> /\ tree = << >> /\ hist = {}
    /\ is_running = FALSE /\ startup = "pending" /\ queue = << >> /\ workers = {}

\* _check_and_auto_update, called once by the timer of _startup_check
check_and_auto_update ==
    /\ startup = "pending"
    /\ startup' = "done"
    /\ IF is_running THEN UNCHANGED workers ELSE Start("auto")
    /\ UNCHANGED << is_running, queue, syncVars, regVars, moreVars >>

\* a menu handler: returns when is_running, else starts its thread
MenuStart(kind) ==
    /\ ~is_running
    /\ Start(kind)
    /\ UNCHANGED << is_running, startup, queue, syncVars, regVars, moreVars >>

menu_check_and_update       == MenuStart("update_selected")

menu_check_selected_updates == MenuStart("check_selected")

menu_update                 == MenuStart("sync")

menu_reclone                == MenuStart("reclone")

\* a thread function begins by posting set_running(True)
thread_begin ==
    \E w \in workers :
        /\ w.at = "begin"
        /\ Post(TRUE)
        /\ Move(w, "work")
        /\ UNCHANGED << is_running, startup, syncVars, regVars, moreVars >>

\* it checks or updates or re-clones its repositories, one after the other
thread_work ==
    \E w \in workers :
        /\ w.at = "work"
        /\ Move(w, "end")
        /\ UNCHANGED << is_running, startup, queue, syncVars, regVars, moreVars >>

\* it posts set_running(False); every thread function returns there except
\* _check_and_auto_update_thread, which goes on to _sync_repos when a
\* repository with auto-update on has an update
thread_end ==
    \E w \in workers :
        /\ w.at = "end"
        /\ Post(FALSE)
        /\ \/ workers' = workers \ { w }
           \/ w.kind = "auto" /\ Move(w, "auto_sync")
        /\ UNCHANGED << is_running, startup, syncVars, regVars, moreVars >>

\* _sync_repos called by _check_and_auto_update_thread, then the thread ends
thread_auto_sync ==
    \E w \in workers :
        /\ w.at = "auto_sync"
        /\ workers' = workers \ { w }
        /\ UNCHANGED << is_running, startup, queue, syncVars, regVars, moreVars >>

\* the main loop runs the next callback: set_running
set_running ==
    /\ queue # << >>
    /\ is_running' = Head(queue)
    /\ queue' = Tail(queue)
    /\ UNCHANGED << startup, workers, syncVars, regVars, moreVars >>

NextGui ==
    \/ check_and_auto_update
    \/ menu_check_and_update
    \/ menu_check_selected_updates
    \/ menu_update
    \/ menu_reclone
    \/ thread_begin
    \/ thread_work
    \/ thread_end
    \/ thread_auto_sync
    \/ set_running

SpecGui == InitGui /\ [][NextGui]_vars

-----------------------------------------------------------------------------
(* A pass over the subscriptions: sync_all (gitsync.py), and in the GUI    *)
(* the startup check-and-auto-update, the forced update and the selected   *)
(* check-and-update.  A record carries its auto_update key and what a sync *)
(* of it meets: "updated" (an update is due and the pull succeeds),        *)
(* "up-to-date", "missing" (no folder), "error" (the fetch or the pull     *)
(* fails), "malformed" (a clone whose "repo" value is not owner/name),     *)
(* "unwritable" (an update is due, the pull succeeds and repos.json cannot *)
(* be written).                                                            *)

Flags == { "on", "off", "unset" }
Fates == { "updated", "up-to-date", "missing", "error", "malformed",
           "unwritable" }

Subscriptions == [auto_update : Flags, fate : Fates]

Lists == UNION { [1..n -> Subscriptions] : n \in 0..MaxList }

\* the elements of s, a set of indices, in ascending order
Ascending(s) ==
    LET In(i) == i \in s
    IN  SelectSeq([i \in 1..MaxList |-> i], In)

InitPass ==
    /\ InitQuiet
    /\ file = << >> /\ subs = << >> /\ tree = << >> /\ hist = {}
    /\ is_running = FALSE /\ startup = "pending" /\ queue = << >> /\ workers = {}
    /\ plist \in Lists
    /\ pkind = "none" /\ phase = "idle" /\ todo = << >> /\ ppos = 1
    /\ results = [k \in DOMAIN plist |-> "none"]
    /\ trace = << >>
    /\ InitNoUrl /\ InitNoStore

Op(k)            == << "op", k >>
Write(k)         == << "write", k >>
Report(k, state) == << "report", k, state >>

\* owner, repo_name = repo.split("/") raises ValueError
SplitRaises(k) == plist[k].fate = "malformed"

\* open(REPOS_FILE, "w") raises OSError in save_repos
SaveRaises(k) == plist[k].fate = "unwritable"

\* a turn on record k that ends in an exception
Raises(k) == SplitRaises(k) \/ SaveRaises(k)

\* sync_repository / _check_and_update_single_thread on record k: what it
\* issues, writes and reports, up to the exception if one is raised
SyncOne(k) ==
    LET f == plist[k].fate
    IN  IF f = "missing" THEN << Report(k, "missing") >>
        ELSE IF f = "malformed" THEN << >>
        ELSE IF f = "error" THEN << Op(k), Report(k, "error") >>
        ELSE IF f = "up-to-date" THEN << Op(k), Report(k, "up-to-date") >>
        ELSE IF f = "unwritable" THEN << Op(k) >>
        ELSE << Op(k), Write(k), Report(k, "updated") >>

\* one turn of the loop of _sync_repos on record k (no probe: it pulls, and
\* it posts the outcome before it writes last_commit)
SyncReposOne(k) ==
    LET f == plist[k].fate
    IN  IF f = "missing" THEN << Report(k, "missing") >>
        ELSE IF f = "malformed" THEN << >>
        ELSE IF f = "error" THEN << Op(k), Report(k, "update-failed") >>
        ELSE IF f = "unwritable" THEN << Op(k), Report(k, "updated") >>
        ELSE << Op(k), Report(k, "updated"), Write(k) >>

\* one turn of the loop of _check_updates_thread on record k: the status it
\* stores in check_results
CheckStatus(k) ==
    LET f == plist[k].fate
    IN  IF ~AutoDefaultTrue(plist[k]) THEN "skipped"
        ELSE IF f = "missing" THEN "missing"
        ELSE IF f = "error" THEN "error"
        ELSE IF f = "up-to-date" THEN "up-to-date"
        ELSE "update-available"

\* the split comes before the fetch, and only for a record that is checked
CheckRaises(k) ==
    CheckStatus(k) \notin { "skipped", "missing" } /\ SplitRaises(k)

CheckOne(k) ==
    IF CheckStatus(k) \in { "skipped", "missing" }
    THEN << Report(k, CheckStatus(k)) >>
    ELSE IF CheckRaises(k) THEN << >>
    ELSE << Op(k), Report(k, CheckStatus(k)) >>

\* a loop takes the next record of todo, or dies on an exception
Turn(entries, raises) ==
    /\ ppos <= Len(todo)
    /\ trace' = trace \o entries
    /\ IF raises
       THEN phase' = "dead" /\ UNCHANGED ppos
       ELSE phase' = phase /\ ppos' = ppos + 1
    /\ UNCHANGED << plist, pkind, todo, syncVars, regVars, guiVars, urlVars, storeVars >>

StartPass(kind, first, list) ==
    /\ pkind = "none" /\ phase = "idle"
    /\ pkind' = kind /\ phase' = first /\ todo' = list /\ ppos' = 1
    /\ UNCHANGED << plist, results, trace, syncVars, regVars, guiVars, urlVars, storeVars >>

\* a sync_all that leaves out the records whose auto_update is false
sync_all_HonoursFlag ==
    LET chosen == { k \in DOMAIN plist : AutoDefaultTrue(plist[k]) }
    IN  IF plist = << >> THEN StartPass("sync_all", "done", << >>)
        ELSE StartPass("sync_all", "sync_all", Ascending(chosen))

\* ---- gitsync.py: sync_all (every record, whatever its auto_update)
sync_all ==
    IF plist = << >> THEN StartPass("sync_all", "done", << >>)
    ELSE StartPass("sync_all", "sync_all", Ascending(DOMAIN plist))

sync_all_turn ==
    /\ phase = "sync_all"
    /\ LET k == todo[ppos]
       IN  Turn(SyncOne(k), Raises(k))
    /\ UNCHANGED results

\* ---- gitsync_gui.py: _startup_check, _check_and_auto_update_thread
check_and_auto_update_thread ==
    /\ plist # << >>
    /\ StartPass("startup", "check", Ascending(DOMAIN plist))

check_updates_thread_turn ==
    /\ phase = "check"
    /\ LET k == todo[ppos]
       IN  /\ Turn(CheckOne(k), CheckRaises(k))
           /\ results' = IF CheckRaises(k)
                         THEN results
                         ELSE [results EXCEPT ![k] = CheckStatus(k)]

\* the records that get the automatic update: sub.get("auto_update", False)
\* and an update available
check_and_auto_update_thread_select ==
    /\ phase = "check" /\ ppos > Len(todo)
    /\ LET auto_update_repos ==
             { k \in DOMAIN plist : /\ AutoDefaultFalse(plist[k])
                                    /\ results[k] = "update-available" }
       IN  /\ todo' = Ascending(auto_update_repos)
           /\ phase' = IF auto_update_repos = {} THEN "done" ELSE "sync_repos"
    /\ ppos' = 1
    /\ UNCHANGED << plist, pkind, results, trace, syncVars, regVars, guiVars, urlVars, storeVars >>

\* ---- gitsync_gui.py: _sync_thread (forced update of the selection)
sync_thread ==
    \E selection \in SUBSET DOMAIN plist :
        /\ selection # {}
        /\ StartPass("forced", "sync_repos", Ascending(selection))

sync_repos_turn ==
    /\ phase = "sync_repos"
    /\ LET k == todo[ppos]
       IN  /\ Turn(SyncReposOne(k), Raises(k))
           /\ results' = IF plist[k].fate \in { "updated", "up-to-date",
                                                 "unwritable" }
                         THEN [results EXCEPT ![k] = "up-to-date"]
                         ELSE IF plist[k].fate = "error"
                         THEN [results EXCEPT ![k] = "update-failed"]
                         ELSE results

\* ---- gitsync_gui.py: _check_and_update_selected_thread
check_and_update_selected_thread ==
    \E selection \in SUBSET DOMAIN plist :
        /\ selection # {}
        /\ StartPass("selected", "selected", Ascending(selection))

check_and_update_selected_thread_turn ==
    /\ phase = "selected"
    /\ LET k == todo[ppos]
       IN  Turn(SyncOne(k), Raises(k))
    /\ UNCHANGED results

\* a loop other than the check of the startup pass has gone through todo
pass_end ==
    /\ phase \in { "sync_all", "sync_repos", "selected" } /\ ppos > Len(todo)
    /\ phase' = "done"
    /\ UNCHANGED << plist, pkind, todo, ppos, results, trace,
                    syncVars, regVars, guiVars, urlVars, storeVars >>

NextPass ==
    \/ sync_all
    \/ sync_all_turn
    \/ check_and_auto_update_thread
    \/ check_updates_thread_turn
    \/ check_and_auto_update_thread_select
    \/ sync_thread
    \/ sync_repos_turn
    \/ check_and_update_selected_thread
    \/ check_and_update_selected_thread_turn
    \/ pass_end

SpecPass == InitPass /\ [][NextPass]_vars

\* a thread that can take a step takes it
SpecPassFair == SpecPass /\ WF_vars(NextPass)

-----------------------------------------------------------------------------
(* The origin URL of a clone through a cycle.  A cycle is the list of the  *)
(* steps it has still to take: "set" and "restore" (git remote set-url     *)
(* with and without the token), "fetch" and "pull", the local commands of  *)
(* the recovery procedure, and the points where the result of the last     *)
(* fetch or pull decides how the cycle goes on.  run_git never raises and  *)
(* no caller reads the result of a set-url.                                *)

Programs == { "cli", "gui_single", "gui_sync", "gui_check" }

\* pull_with_token / _pull_with_token; fetch_with_token and the inline
\* set-url, fetch, set-url of the GUI
PullWithToken  == << "set", "pull", "restore" >>
FetchWithToken == << "set", "fetch", "restore" >>

\* the steps a cycle begins with: sync_repository sets the URL itself and
\* then calls fetch_with_token
Entry(p) ==
    IF p = "cli" THEN << "set" >> \o FetchWithToken \o << "after_probe" >>
    ELSE IF p = "gui_single" THEN FetchWithToken \o << "after_probe" >>
    ELSE IF p = "gui_sync" THEN PullWithToken \o << "after_pull" >>
    ELSE FetchWithToken

\* the recovery procedure after its retry has met the conflict again: the
\* CLI fetches with fetch_with_token, the GUI backs up and runs a plain fetch
RecoveryTail(p) ==
    IF p = "cli" THEN FetchWithToken \o << "after_recfetch" >>
    ELSE << "backup", "fetch", "after_recfetch" >>

InitUrl ==
    /\ InitQuiet
    /\ file = << >> /\ subs = << >> /\ tree = << >> /\ hist = {}
    /\ is_running = FALSE /\ startup = "pending" /\ queue = << >> /\ workers = {}
    /\ InitNoPass /\ InitNoStore
    /\ origin_url = "clean" /\ token \in BOOLEAN /\ prog = "none"
    /\ script = << >> /\ last = "none" /\ armed = FALSE /\ netlog = << >>

urlFrame == << syncVars, regVars, guiVars, passVars, storeVars >>

\* a cycle begins on the clone as the last one left it
cycle_begin ==
    /\ script = << >>
    /\ \E p \in Programs : prog' = p /\ script' = Entry(p)
    /\ last' = "none" /\ armed' = FALSE /\ netlog' = << >>
    /\ UNCHANGED << origin_url, token, urlFrame >>

\* run_git(["remote", "set-url", "origin", token_url]) under "if token"
set_remote_url_with_token ==
    /\ script # << >> /\ Head(script) = "set"
    /\ script' = Tail(script)
    /\ IF token
       THEN /\ armed' = TRUE
            /\ \E ok \in BOOLEAN :
                 origin_url' = IF ok THEN "token" ELSE origin_url
       ELSE UNCHANGED << armed, origin_url >>
    /\ UNCHANGED << token, prog, last, netlog, urlFrame >>

\* run_git(["remote", "set-url", "origin", clean_url]) under "if token"
restore_remote_url ==
    /\ script # << >> /\ Head(script) = "restore"
    /\ script' = Tail(script)
    /\ IF token
       THEN /\ armed' = FALSE
            /\ \E ok \in BOOLEAN :
                 origin_url' = IF ok THEN "clean" ELSE origin_url
       ELSE UNCHANGED << armed, origin_url >>
    /\ UNCHANGED << token, prog, last, netlog, urlFrame >>

\* run_git(["fetch", "origin"]) and run_git(["pull", "origin", branch])
run_network ==
    /\ script # << >> /\ Head(script) \in { "fetch", "pull" }
    /\ script' = Tail(script)
    /\ \E r \in IF Head(script) = "fetch" THEN { "ok", "env" }
                ELSE { "ok", "env", "conflict" } : last' = r
    /\ netlog' = Append(netlog, << Head(script), armed, origin_url >>)
    /\ UNCHANGED << origin_url, token, prog, armed, urlFrame >>

\* merge --abort, the backup and checkout -f (results not read), and
\* reset --hard with clean -fd, whose failure ends the procedure
run_local ==
    /\ script # << >> /\ Head(script) \in { "abort", "backup", "reset", "checkout" }
    /\ IF Head(script) = "reset"
       THEN \E ok \in BOOLEAN : script' = IF ok THEN Tail(script) ELSE << >>
       ELSE script' = Tail(script)
    /\ UNCHANGED << origin_url, token, prog, last, armed, netlog, urlFrame >>

\* the result of the last fetch or pull decides how the cycle goes on
cycle_branch ==
    /\ script # << >>
    /\ \/ /\ Head(script) = "after_probe"
          /\ IF last # "ok" THEN script' = << >>
             ELSE \E due \in BOOLEAN :
                    script' = IF due THEN PullWithToken \o << "after_pull" >>
                              ELSE << >>
       \/ /\ Head(script) = "after_pull"
          /\ script' = IF last = "conflict"
                       THEN << "abort" >> \o PullWithToken \o << "after_retry" >>
                       ELSE << >>
       \/ /\ Head(script) = "after_retry"
          /\ script' = IF last = "conflict" THEN RecoveryTail(prog) ELSE << >>
       \/ /\ Head(script) = "after_recfetch"
          /\ script' = IF last = "ok"
                       THEN << "reset", "checkout" >> \o PullWithToken
                       ELSE << >>
    /\ UNCHANGED << origin_url, token, prog, last, armed, netlog, urlFrame >>

NextUrl ==
    \/ cycle_begin
    \/ set_remote_url_with_token
    \/ restore_remote_url
    \/ run_network
    \/ run_local
    \/ cycle_branch

SpecUrl == InitUrl /\ [][NextUrl]_vars

-----------------------------------------------------------------------------
(* repos.json as a document, and the registry functions of gitclone.py and *)
(* gitsync.py applied to it.  A document is absent, unparsable             *)
(* ("corrupt"), JSON that is not an object ("array"), an object without    *)
(* the key "subscriptions" ("nokey"), or an object with the list ("ok");   *)
(* its style is how it is laid out: "canonical" as json.dump(indent=2,     *)
(* ensure_ascii=False) writes it, or "foreign".  A record holds the keys   *)
(* the programs read; "unset" stands for a key the record does not have.   *)

Identities == 1..MaxList

StoredRecords ==
    [repo : Identities, local_path : { "p0" }, branch : { "main" },
     added : { "old" }, last_commit : { "", "c1" }, auto_update : Flags]

\* the lists of n records with n different identities
UniqueLists(n) ==
    { l \in [1..n -> StoredRecords] :
        \A i, j \in 1..n : i # j => l[i].repo # l[j].repo }

Documents ==
    { Absent, Document("corrupt", "foreign", << >>),
      Document("array", "foreign", << >>), Document("array", "canonical", << >>),
      Document("nokey", "foreign", << >>), Document("nokey", "canonical", << >>) }
    \cup { Document("ok", st, l) : st \in { "canonical", "foreign" },
                                   l \in UNION { UniqueLists(n) : n \in 0..MaxList } }

\* the value in memory: what json.load returned, or the default
Data(kind, list) == [kind |-> kind, subs |-> list]

\* a variant of load_repos that fills in the keys a record does not have
load_repos_FillsDefaults(d) ==
    IF d.kind \in { "absent", "corrupt" } THEN Data("ok", << >>)
    ELSE Data(d.kind, [i \in DOMAIN d.subs |->
                          IF d.subs[i].auto_update = "unset"
                          THEN [d.subs[i] EXCEPT !.auto_update = "on"]
                          ELSE d.subs[i]])

load_repos(d) ==
    IF d.kind \in { "absent", "corrupt" } THEN Data("ok", << >>)
    ELSE Data(d.kind, d.subs)

\* json.dump writes the value it is given, in its own layout
save_repos(data) == Document(data.kind, "canonical", data.subs)

\* repos_data.get("subscriptions", []): a list has no get
GetRaises(data) == data.kind = "array"

\* the place of the record of repo in the list, 0 when there is none
find_subscription(data, repo) ==
    IF \E i \in DOMAIN data.subs : data.subs[i].repo = repo
    THEN CHOOSE i \in DOMAIN data.subs : data.subs[i].repo = repo
    ELSE 0

NewRecord(repo, local_path, branch) ==
    [repo |-> repo, local_path |-> local_path, branch |-> branch,
     added |-> "today", last_commit |-> "", auto_update |-> "on"]

InitStore ==
    /\ InitQuiet
    /\ file = << >> /\ subs = << >> /\ tree = << >> /\ hist = {}
    /\ is_running = FALSE /\ startup = "pending" /\ queue = << >> /\ workers = {}
    /\ InitNoPass /\ InitNoUrl
    /\ disk \in Documents /\ prev = Absent /\ sop = << >>
    /\ raised = "none" /\ ret = "none"

storeFrame == << syncVars, regVars, guiVars, passVars, urlVars >>

\* one call of a registry function, with what it raised, returned and wrote
Call(op, exception, value, written) ==
    /\ sop = << >>
    /\ sop' = op /\ prev' = disk
    /\ raised' = exception /\ ret' = value /\ disk' = written
    /\ UNCHANGED storeFrame

load_repos_call ==
    Call(<< "load" >>, "none", load_repos(disk), disk)

\* a variant of add_subscription that moves an existing record to the end
add_subscription_call_MovesToEnd(repo, local_path, branch) ==
    LET data == load_repos(disk)
        k    == find_subscription(data, repo)
        op   == << "add", repo, local_path, branch >>
        rest == SelectSeq(data.subs, LAMBDA s : s.repo # repo)
    IN  IF GetRaises(data) THEN Call(op, "AttributeError", "none", disk)
        ELSE IF k # 0
        THEN Call(op, "none", "none",
                  save_repos(Data(data.kind, Append(rest,
                      [data.subs[k] EXCEPT !.local_path = local_path,
                                           !.branch = branch]))))
        ELSE IF data.kind = "nokey" THEN Call(op, "KeyError", "none", disk)
        ELSE Call(op, "none", "none",
                  save_repos(Data(data.kind,
                      Append(data.subs, NewRecord(repo, local_path, branch)))))

\* gitclone.py: add_subscription
add_subscription_call(repo, local_path, branch) ==
    LET data == load_repos(disk)
        k    == find_subscription(data, repo)
        op   == << "add", repo, local_path, branch >>
    IN  IF GetRaises(data) THEN Call(op, "AttributeError", "none", disk)
        ELSE IF k # 0
        THEN Call(op, "none", "none",
                  save_repos(Data(data.kind,
                      [data.subs EXCEPT ![k].local_path = local_path,
                                        ![k].branch = branch])))
        ELSE IF data.kind = "nokey" THEN Call(op, "KeyError", "none", disk)
        ELSE Call(op, "none", "none",
                  save_repos(Data(data.kind,
                      Append(data.subs, NewRecord(repo, local_path, branch)))))

\* gitsync.py: remove_subscription; it saves only when a record went
remove_subscription_call(repo) ==
    LET data == load_repos(disk)
        kept == SelectSeq(data.subs, LAMBDA s : s.repo # repo)
        op   == << "remove", repo >>
    IN  IF GetRaises(data) THEN Call(op, "AttributeError", "none", disk)
        ELSE IF Len(kept) < Len(data.subs)
        THEN Call(op, "none", "True", save_repos(Data("ok", kept)))
        ELSE Call(op, "none", "False", disk)

\* gitsync.py, gitclone.py: update_last_commit; it saves only when it finds
update_last_commit_call(repo, commit_sha) ==
    LET data == load_repos(disk)
        k    == find_subscription(data, repo)
        op   == << "update", repo, commit_sha >>
    IN  IF GetRaises(data) THEN Call(op, "AttributeError", "none", disk)
        ELSE IF k # 0
        THEN Call(op, "none", "none",
                  save_repos(Data(data.kind,
                      [data.subs EXCEPT ![k].last_commit = commit_sha])))
        ELSE Call(op, "none", "none", disk)

\* save_repos(load_repos())
round_trip_call ==
    Call(<< "round_trip" >>, "none", "none", save_repos(load_repos(disk)))

NextStore ==
    \/ load_repos_call
    \/ \E r \in Identities, p \in { "p0", "p1" }, b \in { "main", "dev" } :
         add_subscription_call(r, p, b)
    \/ \E r \in Identities : remove_subscription_call(r)
    \/ \E r \in Identities : update_last_commit_call(r, "c2")
    \/ round_trip_call

SpecStore == InitStore /\ [][NextStore]_vars

-----------------------------------------------------------------------------
(* Properties of a sync cycle, read on the history the cycle records:      *)
(* ops, the git commands and backups issued so far; rstart, the length of  *)
(* ops when the recovery procedure was entered; fails, the causes of the   *)
(* pulls that failed; snap, the clone when recovery was entered.           *)

Range(s) == { s[i] : i \in DOMAIN s }

IsPrefix(s, t) == Len(s) <= Len(t) /\ s = SubSeq(t, 1, Len(s))

InRecovery == rstart >= 0

\* the operations of the recovery run
rops == IF InRecovery THEN SubSeq(ops, rstart + 1, Len(ops)) ELSE << >>

Destructive == { "backup", "reset", "clean" }

\* the step-2 retry has run and did not fail (the pull that led into the
\* procedure is the only failed pull)
RetrySucceeded == InRecovery /\ Len(rops) >= 2 /\ Len(fails) = 1

\* C1: a reset, a clean or a backup is issued in the recovery path only when
\* the most recent failed pull was a structural conflict (unmerged paths, a
\* merge in progress, unrelated histories); a pull failing for any other
\* reason leads to none of them.
C1_DestructiveOnlyAfterStructuralFailure ==
    (InRecovery /\ rops # << >> /\ ops[Len(ops)] \in Destructive)
        => Structural(fails[Len(fails)])

\* C2: every reset --hard is preceded, earlier in the same cycle, by a backup
\* attempt.
C2_BackupBeforeEveryReset ==
    \A i \in DOMAIN ops :
        ops[i] = "reset" => \E j \in 1..(i - 1) : ops[j] = "backup"

C6_HeadEqualsRemoteAfterRecovery ==
    (pc = "rec_done" /\ rec_ok) => head = track

\* C6, amended: when the recovery procedure returns success, HEAD contains
\* the remote branch tip (same history, nothing of the remote missing); HEAD
\* is that tip when neither HEAD nor the tracked local branch carried a
\* local-only commit on entry.
C6_HeadContainsRemoteAfterRecovery ==
    (pc = "rec_done" /\ rec_ok)
        => /\ head.ep = track.ep
           /\ Behind(head, track) = 0
           /\ (snap.head.x = 0 /\ snap.tip.x = 0) => head = track

\* a run that went through the hard reset and returned success
C6_Witness ==
    /\ pc = "rec_done" /\ rec_ok
    /\ "reset" \in Range(rops)
    /\ snap.head # track /\ head = track

\* C7: a failed pull whose output reports unmerged paths, conflicts to fix
\* or unrelated histories is never propagated as an error: it leads into the
\* recovery procedure, in the CLI as in the GUI.
C7_ReportedConflictDelegates ==
    status = "pull-failed"
        => LET text == LowerText(message)
           IN  ~ \/ Contains(text, << "unmerged" >>)
                 \/ Contains(text, << "fix", "conflicts" >>)
                 \/ Contains(text, << "unresolved", "conflict" >>)
                 \/ Contains(text, << "unrelated", "histories" >>)

FullRun == << "abort", "pull", "backup", "fetch", "reset", "clean",
              "checkout", "pull" >>

\* C8: a recovery run issues its operations in the order merge abort, pull
\* retry, backup, fetch, reset, clean, checkout, final pull: what a run has
\* issued so far is always a beginning of that sequence, and the merge abort
\* is followed by the retry whatever it returned.
C8_RecoveryIsLinear ==
    InRecovery
        => /\ IsPrefix(rops, FullRun)
           /\ (pc = "rec_retry" <=> rops = << "abort" >>)

\* C9: when the step-2 retry succeeds the procedure returns success at once:
\* the run issued merge abort and pull only (no backup, fetch, reset, clean
\* or checkout), no backup folder was made and no local commit was dropped.
C9_RetrySuccessEndsRecovery ==
    RetrySucceeded
        => /\ rops = << "abort", "pull" >>
           /\ rec_ok
           /\ pc \in { "rec_done", "idle" }
           /\ pc = "idle" => status = "recovered"
           /\ head.x >= snap.head.x
           /\ dirty = snap.dirty

\* the retry of a run has just succeeded
C9_Witness ==
    RetrySucceeded /\ pc = "rec_done" /\ rec_ok /\ head # snap.head

\* C10, as stated: a second run of the recovery procedure, right after a run
\* that returned success and with the remote unchanged, returns success
\* again, having issued merge abort and the retry only, and leaves the clone
\* as the first run left it.
C10_SecondRunRecoversAgain ==
    (runs = 2 /\ pc = "idle")
        => /\ status = "recovered"
           /\ ops = << "abort", "pull" >>
           /\ Cur = snap

\* C10, amended: the second run issues merge abort and the retry only (no
\* backup, reset, clean, fetch or checkout) and leaves the clone as the first
\* run left it; it returns success unless its retry fails for a reason of the
\* environment (network, permission), and then it returns failure.
C10_SecondRunIsHarmless ==
    runs = 2
        => /\ IsPrefix(ops, << "abort", "pull" >>)
           /\ Cur = snap
           /\ pc \in { "rec_abort", "rec_retry", "rec_done", "idle" }
           /\ pc \in { "rec_done", "idle" }
                => /\ ops = << "abort", "pull" >>
                   /\ rec_ok \/ fails = << "env" >>
                   /\ rec_ok <=> fails = << >>

\* a second run has returned success after a first run that made a backup
\* and reset the clone
C10_Witness ==
    /\ runs = 2 /\ pc = "idle" /\ status = "recovered"
    /\ ops = << "abort", "pull" >>
    /\ backups # {}

\* C3: a value persisted by the operation that owns it (last_commit written
\* after a sync, a record appended by the clone step) is still in repos.json,
\* unchanged, after any later write of another operation (auto-update
\* toggle, bulk set, reorder).
C3_PersistedValuesSurvive ==
    \A p \in hist :
        \E i \in DOMAIN file : file[i].repo = p[1] /\ file[i].last_commit = p[2]

\* C4: at no time are two worker threads of the GUI alive at once: a handler
\* that would start a pass while another pass runs starts nothing.
C4_OneWorkerAtATime ==
    Cardinality(workers) <= 1

\* C11: when the step-2 retry fails and that failure is not itself a
\* structural conflict, the recovery run ends there as failed and carries the
\* retry's output: it issued merge abort and the retry only, made no backup
\* folder and issued no fetch.
C11_NonStructuralRetryFailureEnds ==
    (InRecovery /\ Len(fails) >= 2 /\ ~Structural(fails[2]))
        => /\ rops = << "abort", "pull" >>
           /\ pc \in { "rec_done", "idle" }
           /\ ~rec_ok
           /\ journal.failed = << "pull", message >>
           /\ pc = "idle" => status = "recovery-failed"

\* the backup step of the cycle ran and made no folder (the folder exists
\* whenever the step is reached, so the copy failed)
BackupFailed == "backup" \in Range(ops) /\ "backup-done" \notin journal.log

\* C12: a failed backup is reported and not fatal: in the recovery run as in
\* the ahead path a warning line is logged when the backup fails, and the
\* cycle goes on to the fetch or to the hard reset.
C12_FailedBackupWarnsAndProceeds ==
    BackupFailed
        => /\ "backup-warning" \in journal.log
           /\ ops[Len(ops)] = "backup" => pc \in { "rec_fetch", "ahead_reset" }

\* C13: a failure of the recovery run's fetch, reset --hard or clean ends the
\* run as failed: the failed command is the last operation of the cycle, the
\* procedure returns failure with that command's output, the cycle ends
\* recovery-failed and last_commit is not written.
C13_FetchOrResetFailureEndsRecovery ==
    (InRecovery /\ journal.failed[1] \in { "fetch", "reset", "clean" })
        => /\ rops # << >> /\ rops[Len(rops)] = journal.failed[1]
           /\ pc \in { "rec_done", "idle" }
           /\ ~rec_ok
           /\ message = (IF journal.failed[1] = "fetch"
                         THEN << "fetch", "failed:" >>
                         ELSE << "reset/clean", "failed:" >>) \o journal.failed[2]
           /\ ~journal.wrote
           /\ pc = "idle" => status = "recovery-failed"

\* a cycle has ended on the failed fetch of its recovery run
C13_Witness ==
    /\ InRecovery /\ journal.failed[1] = "fetch"
    /\ pc = "idle" /\ status = "recovery-failed"
    /\ "reset" \notin Range(ops)

\* C14, as stated: a failed force checkout is logged and is not fatal: a log
\* line records the failure and the final pull is issued all the same.
C14_CheckoutFailureIsLogged ==
    (InRecovery /\ journal.failed[1] = "checkout")
        => /\ "checkout-failed" \in journal.log
           /\ pc = "rec_final" \/ rops[Len(rops)] = "pull"

\* C14, amended: the result of the force checkout is not read: its failure
\* writes no log line and changes nothing in the run, which goes on to the
\* final pull; when that pull succeeds the run returns success although the
\* checkout failed.
C14_CheckoutFailureIsIgnored ==
    /\ (InRecovery /\ journal.failed[1] = "checkout")
         => /\ "checkout-failed" \notin journal.log
            /\ \/ pc = "rec_final" /\ rops[Len(rops)] = "checkout"
               \/ /\ pc \in { "rec_done", "idle" }
                  /\ rops[Len(rops)] = "pull"
                  /\ rec_ok
                  /\ pc = "idle" => status = "recovered"
    /\ (InRecovery /\ "checkout" \in Range(rops))
         => pc = "rec_final" \/ rops[Len(rops)] = "pull"

\* the checkout of a run failed and the run returned success
C14_Witness ==
    /\ InRecovery /\ journal.failed[1] = "checkout"
    /\ pc = "rec_done" /\ rec_ok

\* the final pull of the recovery run has been issued
FinalIssued ==
    InRecovery /\ "checkout" \in Range(rops) /\ rops[Len(rops)] = "pull"

\* C15: a run that reaches the final pull is decided by that pull alone: it
\* returns success exactly when the pull succeeded (whatever the abort, the
\* backup or the checkout returned) and failure with the pull's output
\* otherwise; and the text of every failed recovery contains the output of
\* the command that failed last.
C15_FinalPullDecides ==
    /\ (FinalIssued /\ rstart > 0)
         => /\ pc \in { "rec_done", "idle" }
            /\ rec_ok <=> Len(fails) = 2
            /\ ~rec_ok => journal.failed = << "pull", message >>
            /\ pc = "idle"
                 => status = IF rec_ok THEN "recovered" ELSE "recovery-failed"
    /\ (InRecovery /\ pc \in { "rec_done", "idle" } /\ ~rec_ok)
         => /\ journal.failed[1] \in { "pull", "fetch", "reset", "clean" }
            /\ journal.failed[1] = ops[Len(ops)]
            /\ Contains(message, journal.failed[2])

\* a cycle has ended on the failed final pull of its recovery run
C15_Witness ==
    /\ FinalIssued /\ pc = "idle" /\ status = "recovery-failed"
    /\ journal.failed[1] = "pull" /\ message = journal.failed[2]

\* the probe of the cycle has classified the repository
Classified == class0[1] >= 0

\* what the check-only pass recorded for the repository
Recorded(kind) ==
    IF kind = "up-to-date" THEN status = "up-to-date"
    ELSE status = "update-available" /\ message = << kind >>

C17_MissingFolderIsLeftAlone ==
    ~exists
        => /\ pc = "idle"
           /\ status \in { "none", "missing" }
           /\ ops = << >>
           /\ ~journal.seturl /\ ~journal.wrote
           /\ journal.failed[1] = "none" /\ journal.log = {}
           /\ backups = {} /\ last_commit = NoRev

\* the forced update of the GUI has found the folder missing
C17_Witness ==
    ~exists /\ mode = "gui_sync" /\ pc = "idle" /\ status = "missing"

\* C18: a folder that exists without a .git directory is classified
\* not-a-repository on every sync path (CLI sync, GUI selected update, GUI
\* forced and automatic update): no fetch, pull or reset is issued against
\* it and the cycle ends with an outcome of its own.
C18_NotARepositoryIsLeftAlone ==
    (exists /\ ~hasGit)
        => /\ pc = "idle"
           /\ status \in { "none", "not-git" }
           /\ ops = << >>

\* C19: when the probe's fetch fails the cycle ends there as fetch-failed
\* with the fetch's output: the fetch is its only operation (no pull, backup,
\* reset or recovery run), HEAD and the working tree are as they were,
\* last_commit is not written, and the next cycle can begin as any other.
C19_FetchFailureEndsCycle ==
    /\ (~InRecovery /\ journal.failed[1] = "fetch")
         => /\ pc = "idle" /\ status = "fetch-failed"
            /\ message = journal.failed[2]
    /\ (pc = "idle" /\ status = "fetch-failed")
         => /\ ops = << "fetch" >>
            /\ ~InRecovery /\ fails = << >>
            /\ ~journal.wrote /\ journal.log = {}
            /\ Tree(Cur) = journal.start
            /\ ENABLED sync_repository_check

\* the probe of the CLI has failed to fetch while an update was due
C19_Witness ==
    /\ mode = "cli" /\ pc = "idle" /\ status = "fetch-failed"
    /\ remote # track

\* C20: a cycle that finds the repository up to date mutates nothing: the
\* probe's fetch is its only operation (no pull, backup or reset), HEAD and
\* the working tree are as they were when it began and repos.json is not
\* written; and a probe that reads equal commits (CLI) or zero counts (GUI)
\* ends the cycle that way.
C20_UpToDateMutatesNothing ==
    /\ (pc = "idle" /\ status = "up-to-date")
         => /\ ops = << "fetch" >>
            /\ Tree(Cur) = journal.start
            /\ ~journal.wrote /\ journal.log = {}
            /\ journal.failed[1] = "none"
            /\ mode = "cli" => head = track
            /\ mode \in { "gui_single", "gui_check" } => class0 = << 0, 0 >>
    /\ (mode = "cli" /\ Len(ops) >= 2) => journal.start.head # track

\* the CLI has found a clean clone up to date with a remote that has moved
C20_Witness ==
    /\ mode = "cli" /\ pc = "idle" /\ status = "up-to-date"
    /\ ops = << "fetch" >> /\ head = remote /\ head.n > 0

\* C21: last_commit is written by a sync cycle only in the step that ends
\* it as updated or recovered (the forced reset of the ahead path included),
\* and what is written is the HEAD the cycle has reached: no step of a cycle
\* that ends missing, not a repository, fetch-failed, up to date, with an
\* update error or with a failed recovery changes it.
C21_LastCommitWrittenOnlyOnSuccess ==
    [][ (last_commit' # last_commit \/ (journal'.wrote /\ ~journal.wrote))
          => /\ pc' = "idle"
             /\ status' \in { "updated", "recovered", "reset-done" }
             /\ last_commit' = head' ]_vars

\* a cycle has ended recovered and has stored the new HEAD
C21_Witness ==
    /\ pc = "idle" /\ status = "recovered"
    /\ journal.wrote /\ last_commit = head /\ head # journal.start.head

\* the probe has found the clone strictly behind: HEAD is an ancestor of the
\* probed tip, on its branch, with a clean tree and no merge under way
StrictlyBehind ==
    /\ mode \in { "cli", "gui_single" } /\ pc = "pull"
    /\ head.ep = track.ep /\ Behind(head, track) > 0 /\ Ahead(head, track) = 0
    /\ dirty = "no" /\ ~merging /\ ~unmerged /\ branch_tip = NoRev

\* the engine takes its pull step
PullStep == pc = "pull" /\ ops' = Append(ops, "pull")

-----------------------------------------------------------------------------
(* Properties of a pass, read on its trace.                                *)

\* record k has been reported with a final state
Reported(k) ==
    \E i \in DOMAIN trace : trace[i][1] = "report" /\ trace[i][2] = k

\* the records the pass is about: all of them, or the selection
Listed ==
    IF pkind \in { "sync_all", "startup" } THEN DOMAIN plist ELSE Range(todo)

\* C23: a pass never stops early because of one repository: whatever the
\* records and what their syncs meet, a pass that has begun reaches its end,
\* and at its end every record it is about has been given a final state.
C23_EveryRecordProcessed ==
    /\ (pkind # "none") ~> (phase = "done")
    /\ [](phase = "done" => \A k \in Listed : Reported(k))

\* the record at position p of todo has had its turn, to the end or to an
\* exception
Taken(p) == p < ppos \/ (p = ppos /\ phase = "dead")

\* the operation at position i of the trace is followed by a report of the
\* same record before position j
ReportedBetween(i, j) ==
    \E m \in (i + 1)..(j - 1) :
        trace[m][1] = "report" /\ trace[m][2] = trace[i][2]

\* C24: every outcome is reported before the first operation on the next
\* record of the pass, and no record of the pass is processed or skipped
\* without an event that carries its final state: an operation on a record is
\* followed by a report of that record before any operation on another one
\* and before the turn is over, and every record that has had its turn has a
\* report.
C24_OutcomeReportedBeforeNext ==
    /\ \A i, j \in DOMAIN trace :
           (i < j /\ trace[i][1] = "op" /\ trace[j][1] = "op"
                  /\ trace[j][2] # trace[i][2]) => ReportedBetween(i, j)
    /\ \A i \in DOMAIN trace :
           trace[i][1] = "op" => ReportedBetween(i, Len(trace) + 1)
    /\ \A p \in DOMAIN todo : Taken(p) => Reported(todo[p])

\* record k has an entry of one of the kinds in the trace
Has(kinds, k) ==
    \E i \in DOMAIN trace : trace[i][1] \in kinds /\ trace[i][2] = k

\* record k has been reported with a state other than "skipped"
Included(k) ==
    \E i \in DOMAIN trace :
        trace[i][1] = "report" /\ trace[i][2] = k /\ trace[i][3] # "skipped"

Unattended == pkind \in { "sync_all", "startup" }

\* C26: the auto_update flag governs the unattended passes (sync_all and the
\* startup check-and-auto-update): no VCS operation on and no registry write
\* for a record whose flag is false, and every record whose flag is true is
\* included.
C26_AutoSyncGovernsUnattended ==
    Unattended =>
        /\ \A k \in DOMAIN plist :
               plist[k].auto_update = "off" => ~Has({ "op", "write" }, k)
        /\ phase = "done" =>
               \A k \in DOMAIN plist :
                   plist[k].auto_update = "on" => Included(k)

\* C26, as the code has it: the flag governs the startup pass of the GUI only.
\* There a record whose flag is false gets no operation and no write, every
\* other record is probed, and only a record whose flag is present and true
\* is updated and written; sync_all takes every record whatever its flag.
C26_FlagGovernsStartupOnly ==
    /\ pkind = "startup" =>
           /\ \A k \in DOMAIN plist :
                  /\ plist[k].auto_update = "off" => ~Has({ "op", "write" }, k)
                  /\ plist[k].auto_update = "unset" => ~Has({ "write" }, k)
           /\ phase = "done" =>
                  \A k \in DOMAIN plist :
                      /\ plist[k].auto_update # "off" => Included(k)
                      /\ (plist[k].auto_update = "on"
                            /\ plist[k].fate = "updated") => Has({ "write" }, k)
                      /\ (plist[k].auto_update = "unset"
                            /\ plist[k].fate = "updated") =>
                             results[k] = "update-available"
    /\ (pkind = "sync_all" /\ phase = "done") =>
           \A k \in DOMAIN plist :
               /\ Included(k)
               /\ plist[k].fate # "missing" => Has({ "op" }, k)
               /\ plist[k].fate = "updated" => Has({ "write" }, k)

C26_Witness ==
    /\ pkind = "sync_all" /\ phase = "done"
    /\ \E k \in DOMAIN plist :
           plist[k].auto_update = "off" /\ Has({ "write" }, k)

\* C27: probing is free of working-tree effects: no step of a check-only
\* cycle (fetch and comparison) changes HEAD, the branch, the working tree,
\* the backups or last_commit, and the only operation it issues is fetch (no
\* pull, reset, clean or checkout); what it may change is origin/branch.
C27_ProbeLeavesTreeAlone ==
    [][ mode' = "gui_check"
          => /\ head' = head /\ branch_tip' = branch_tip
             /\ merging' = merging /\ unmerged' = unmerged
             /\ dirty' = dirty /\ clash' = clash
             /\ exists' = exists /\ hasGit' = hasGit /\ backups' = backups
             /\ last_commit' = last_commit /\ ~journal'.wrote
             /\ Range(ops') \subseteq { "fetch" } ]_vars

\* a check has found an update: origin/branch has moved, HEAD has not
C27_Witness ==
    /\ mode = "gui_check" /\ pc = "idle" /\ status = "update-available"
    /\ message = << "behind" >> /\ ops = << "fetch" >>
    /\ track = remote /\ head # track /\ Tree(Cur) = journal.start

-----------------------------------------------------------------------------
(* The token in the origin URL.                                            *)

\* C25: the token is in the origin URL only for the duration of one network
\* operation: with a token configured every fetch and every pull is run
\* right after a set-url with it, the URL holds the token only while a fetch
\* or pull and its restore are still to come, and once the cycle has
\* returned, whatever its outcome, the URL holds no token.
C25_TokenOnlyDuringNetworkOperation ==
    /\ token => \A i \in DOMAIN netlog : netlog[i][2]
    /\ origin_url = "token" =>
           /\ script # << >>
           /\ Head(script) \in { "set", "fetch", "pull", "restore" }

-----------------------------------------------------------------------------
(* The registry file.                                                      *)

\* a call on a document that holds no list comes out as on an empty registry
AsOnEmpty ==
    CASE sop[1] = "load"   -> ret.subs = << >>
      [] sop[1] = "add"    -> /\ disk.kind = "ok"
                              /\ disk.subs = << NewRecord(sop[2], sop[3], sop[4]) >>
      [] sop[1] = "remove" -> ret = "False" /\ disk = prev
      [] sop[1] = "update" -> disk = prev
      [] OTHER             -> TRUE

\* C28: loading the registry never raises, and for every content of
\* repos.json (absent, unparsable, or parsable but not of the expected
\* shape) load and every operation built on it (find, upsert, remove, the
\* write of last_commit) completes without an exception and treats the
\* registry as empty.
C28_BadStoreIsEmptyNeverAnError ==
    sop # << >> =>
        /\ raised = "none"
        /\ prev.kind # "ok" => AsOnEmpty

Before == IF prev.kind = "ok" THEN prev.subs ELSE << >>

\* C30: add_subscription on a registry (or on no registry yet) either
\* updates the record of the identity in place or appends a new record: an
\* existing record keeps its position and its added, last_commit and
\* auto_update values and only local_path and branch change; for a new
\* identity exactly one record is appended at the end; every other record
\* and the order of all records are unchanged.
C30_UpsertUpdatesInPlaceOrAppends ==
    (sop # << >> /\ sop[1] = "add"
                 /\ prev.kind \in { "ok", "absent", "corrupt" })
        => /\ raised = "none" /\ disk.kind = "ok"
           /\ IF \E k \in DOMAIN Before : Before[k].repo = sop[2]
              THEN /\ Len(disk.subs) = Len(Before)
                   /\ \A i \in DOMAIN Before :
                          disk.subs[i] =
                              IF Before[i].repo = sop[2]
                              THEN [Before[i] EXCEPT !.local_path = sop[3],
                                                     !.branch = sop[4]]
                              ELSE Before[i]
              ELSE /\ Len(disk.subs) = Len(Before) + 1
                   /\ \A i \in DOMAIN Before : disk.subs[i] = Before[i]
                   /\ disk.subs[Len(disk.subs)] =
                          [repo |-> sop[2], local_path |-> sop[3],
                           branch |-> sop[4], added |-> "today",
                           last_commit |-> "", auto_update |-> "on"]

\* the first record of a full registry was given a new path and branch
C30_Witness ==
    /\ sop # << >> /\ sop[1] = "add" /\ sop[3] = "p1" /\ sop[4] = "dev"
    /\ prev.kind = "ok" /\ Len(prev.subs) = MaxList
    /\ prev.subs[1].repo = sop[2]
    /\ prev.subs[1].auto_update = "off" /\ prev.subs[1].last_commit = "c1"
    /\ disk.subs[1].local_path = "p1" /\ disk.subs[1].added = "old"

-----------------------------------------------------------------------------
(* The order and the flags of the registry.                                *)

UniqueIdentities(list) ==
    \A i, j \in DOMAIN list : i # j => list[i].repo # list[j].repo

\* C31: identity is unique across the registry and stays so: after any
\* sequence of upsert, remove, last_commit write, toggle, bulk set and
\* reorder no two records of repos.json have the same repo, and every record
\* that was persisted and not removed is still there.
C31_IdentityUniqueNothingLost ==
    /\ UniqueIdentities(file)
    /\ \A p \in hist : p[1] \in RepoNames(file)

\* every record with auto-update on comes before every record with it off
\* (a record without the key counts as on, as the sort keys read it)
Grouped(list) ==
    \A i, j \in DOMAIN list : (IsOff(list[i]) /\ IsOn(list[j])) => j < i

\* C32: grouping by auto_update is preserved in repos.json: no toggle, bulk
\* set, reorder or addition of a record takes a grouped stored list to one
\* that is not grouped.
C32_GroupingPreservedInFile ==
    [][ Grouped(file) => Grouped(file') ]_vars

\* C32, as the code has it: with the stored list and the list the GUI holds
\* both grouped, every operation leaves the GUI's list grouped, and leaves
\* the stored list grouped unless it is add_subscription, which appends the
\* new record, auto-update on, at the end whatever is there.
C32_GroupingPreservedButForAdd ==
    [][ (Grouped(file) /\ Grouped(subs))
          => /\ Grouped(subs')
             /\ \/ Grouped(file')
                \/ /\ Len(file') = Len(file) + 1
                   /\ SubSeq(file', 1, Len(file)) = file
                   /\ file'[Len(file')].auto_update = "on"
                   /\ subs' = subs ]_vars

\* the GUI holds a record with auto-update off and the clone step has
\* appended a new one behind it
C32_Witness ==
    /\ Len(file) = 2 /\ subs = << file[1] >>
    /\ file[1].auto_update = "off"
    /\ file[2] = Record(file[2].repo, "on", 0)
    /\ ~Grouped(file) /\ Grouped(subs)

\* the auto_update value of the record of repo in a list
FlagOf(list, repo) == list[IndexOf(list, repo)].auto_update

\* the records of self.subscriptions whose flag the step changes
ChangedSet == { r \in RepoNames(subs) : FlagOf(subs', r) # FlagOf(subs, r) }

\* the list before the step, with the flags the step gives
Changed == [i \in DOMAIN subs |->
              [subs[i] EXCEPT !.auto_update = FlagOf(subs', subs[i].repo)]]

\* a step of the GUI that changes the flag of a record it holds and saves
FlagStep ==
    /\ file' = subs' /\ subs' # file
    /\ Len(subs') = Len(subs) /\ RepoNames(subs') = RepoNames(subs)
    /\ ChangedSet # {}

\* C33: changing a record's flag reorders the list by the rule "enabled
\* first, stable within each group": the list a toggle or a bulk set
\* produces is the stable partition, by auto_update, of the records with the
\* changed flags.
C33_FlagChangeIsStablePartition ==
    [][ FlagStep => subs' = GroupSort(Changed) ]_vars

\* C33, as the code has it: the records whose flag does not change keep
\* their order and every record keeps its other fields; the bulk set gives
\* the stable partition; the toggle takes the one record out and puts it
\* right behind the last enabled record when it turns on, and at the very
\* end of the list when it turns off.
C33_ToggleMovesToBottomOfGroup ==
    [][ FlagStep =>
          /\ SelectSeq(subs', LAMBDA s : s.repo \notin ChangedSet)
               = SelectSeq(subs, LAMBDA s : s.repo \notin ChangedSet)
          /\ \A i \in DOMAIN subs' :
                 subs'[i] = Changed[IndexOf(subs, subs'[i].repo)]
          /\ \/ subs' = GroupSort(Changed)
             \/ \E r \in Repos :
                  /\ ChangedSet = { r }
                  /\ LET k == IndexOf(subs', r)
                     IN  IF FlagOf(subs', r) = "on"
                         THEN /\ \A j \in (k + 1)..Len(subs') : IsOff(subs'[j])
                              /\ k = 1 \/ IsOn(subs'[k - 1])
                         ELSE k = Len(subs') ]_vars

\* the record that came first is now off and last, behind a record that was
\* off before it
C33_Witness ==
    /\ subs = file /\ Len(subs) = 2 /\ tree = << "b/y", "a/x" >>
    /\ subs[1] = Record("b/y", "off", 0) /\ subs[2] = Record("a/x", "off", 0)

\* C39: all readers of the auto_update flag agree on every record the GUI
\* holds, a record without the key included: it is displayed as checked
\* (sub.get("auto_update", True) in refresh_list) exactly when the check pass
\* does not skip it (default True), exactly when the startup auto-update
\* takes it as eligible (default False), exactly when a toggle reads it as
\* enabled (default False), so that one toggle flips what is displayed.
C39_ReadersOfFlagAgree ==
    \A i \in DOMAIN subs :
        LET displayed == AutoDefaultTrue(subs[i])
            checked   == AutoDefaultTrue(subs[i])
            eligible  == AutoDefaultFalse(subs[i])
            current   == AutoDefaultFalse(subs[i])
            toggled   == [subs[i] EXCEPT !.auto_update = AutoValue(~current)]
        IN  /\ displayed = checked /\ checked = eligible /\ eligible = current
            /\ AutoDefaultTrue(toggled) # displayed

-----------------------------------------------------------------------------
(* Backups, the running flag, and one cycle after another.                 *)

\* C34: repeated backups never collide: whenever a backup of the folder is
\* about to be taken, at whatever moment after earlier backups (the same
\* clock second included), it can succeed under a path no earlier backup
\* has, so an earlier backup never makes it fail.
C34_BackupPathIsFresh ==
    (pc \in { "ahead_backup", "rec_backup" } /\ exists)
        => \E b \in backup_local_folder :
               b.ok /\ b.made >= 0 /\ b.made \notin backups

\* the value is_running has once the callbacks posted so far have run
LastPosted == IF queue = << >> THEN is_running ELSE queue[Len(queue)]

\* C35: is_running covers the whole startup check-and-auto-update pass: from
\* the moment its worker has begun checking until its _sync_repos has
\* finished, is_running is true (or the callback that sets it is posted and
\* nothing posted after it clears it), so that no handler guarded by the
\* flag starts another pass meanwhile.
C35_RunningCoversStartupPass ==
    \A w \in workers : (w.kind = "auto" /\ w.at # "begin") => LastPosted

\* the cycle under way began on the clone as the last successful cycle left
\* it (HEAD is the revision that cycle wrote, on its branch, with a clean
\* tree and no merge), and the remote is where that cycle met it
FollowsSuccess ==
    /\ pc # "idle" /\ mode \in { "cli", "gui_single" }
    /\ last_commit # NoRev /\ branch_tip = NoRev
    /\ journal.start = Tree([NoSnap EXCEPT !.head = last_commit])
    /\ remote.ep = last_commit.ep /\ remote.n = last_commit.n

\* C36: synchronization converges: a cycle that follows one that ended
\* updated or recovered, with the remote unchanged, does nothing but probe:
\* it never reaches the pull, the backup, the hard reset or the recovery
\* procedure, in the CLI as in the GUI, whatever the divergence was.
C36_FollowingCycleOnlyProbes ==
    FollowsSuccess => pc \in { "fetch", "compare" }

\* C37: whenever the GUI reports a repository as up-to-date after a probe,
\* the local HEAD revision equals the revision of the remote branch tip; a
\* count command that failed never makes an up-to-date report of a clone
\* whose two revisions differ.
C37_GuiUpToDateMeansEqualRevisions ==
    (pc = "idle" /\ mode \in { "gui_check", "gui_single" }
                 /\ status = "up-to-date")
        => head = track

\* the probe of a CLI or GUI cycle has just ended and the cycle goes on: the
\* clone and the remote-tracking ref are still what the probe read
Decided ==
    /\ mode \in { "cli", "gui_single" }
    /\ ops = << "fetch" >> /\ pc \notin { "fetch", "compare", "idle" }

\* C38: the CLI engine and the GUI engine are equivalent: on the same clone
\* and the same answers of git they issue the same operations. The GUI
\* decides to pull only for a clone that is behind its remote-tracking ref
\* (an ahead-only clone gets backup and reset), so in either engine a cycle
\* that goes from the probe to the pull is on a clone that is behind.
C38_EnginesDecideAlike ==
    (Decided /\ pc = "pull") => Behind(head, track) > 0

=============================================================================
